---------------------------- MODULE Spec2Model ----------------------------
(***************************************************************************)
(* The engine's container library (nge::cntr): DynamicArray, List, Set and *)
(* Map, modelled from include/engine/containers/*.h.                       *)
(*                                                                         *)
(* Every container is a record holding the fields of the C++ object; every *)
(* member function is an operator from the record (and the arguments) to   *)
(* the record after the call, written statement by statement.  The actions *)
(* of a specification apply one member function each to the container      *)
(* held in a variable.                                                     *)
(***************************************************************************)
EXTENDS Integers, Sequences, FiniteSets, TLC

VARIABLES
    arr,        \* the DynamicArray<T> under test
    ref,        \* reference sequence given the same operations as arr
    ret,        \* value returned by the last pop/popFront/removeAt on arr
    refRet,     \* value the reference sequence returned for that operation
    op,         \* name of the last operation applied
    pushOnly,   \* TRUE while arr has only ever been pushed to
    mend,       \* the insertAt/removeAt that is to follow, if any
    list,       \* the List<T> under test
    set,        \* the Set<T> under test
    map,        \* the Map<K, V> under test
    used,       \* the keys the set or map operations were called with so far
    hist,       \* the calls on the set or map so far: "adding" (only add of
                \* keys not contained / only assign), "removing" (those, then
                \* only remove of keys contained) or "other"
    build,      \* "debug" (asserts are checked) or "release" (NDEBUG)
    aborted,    \* TRUE once a failed assert has ended the program
    fixed,      \* the FixedArray<T> objects and the storage they point to
    under,      \* the container a specification of several containers
                \* exercises in this behaviour ("any": no such choice)
    other       \* the container copied or moved from the one under test,
                \* and what became of the storage of the two

vars == <<arr, ref, ret, refRet, op, pushOnly, mend, list, set, map, used,
          hist, build, aborted, fixed, under, other>>

(***************************************************************************)
(* Bounds of the model.                                                    *)
(***************************************************************************)
\* pattern values pushed are 0 .. NumVals-1; NumVals itself is the odd value
NumVals == 3
\* no operation makes the array longer than this
MaxSize == 33
\* popFront is not taken once _first has reached this
MaxFirst == 33
\* no operation makes the list longer than this
MaxCount == 3
\* an array that is only pushed to is pushed to while it is shorter
MaxPushes == 130
\* the arrays of SpecArrayOps grow while they have fewer elements
MaxSmall == 4
\* the values put into the list are 1 .. NumListVals
NumListVals == 2
\* the values assigned in the map are 1 .. NumMapVals
NumMapVals == 2
\* add is called while the set's backing array holds fewer elements
MaxElems == 4
\* assign is called while the map's backing array holds fewer pairs
MaxPairs == 3
\* the capacity the FixedArrays are constructed with
FixedCap == 3
\* the values put into a FixedArray are 0 .. NumFixedVals - 1; a slot that
\* was never assigned holds any of 0 .. NumFixedVals
NumFixedVals == 2
\* the blocks of storage there are: no allocation once all are handed out
MaxBlocks == 3

(***************************************************************************)
(* Program constants.                                                      *)
(***************************************************************************)
MIN_CAPACITY == 32

\* The content of a slot that was never assigned (new T[count]) or that was
\* moved from: no operation may hand it out.
Unspecified == -1

\* ret when the last operation returned nothing
NoRet == Unspecified - 1

\* other before any container was copied or moved
NoOther == [made |-> "none"]

\* what a call gave back: the value returned (NoRet if none) and the
\* exception thrown or the assert that failed ("none" if the call returned)
Returned(v) ==
    [value |-> v, thrown |-> "none"]

Thrown(what) ==
    [value |-> NoRet, thrown |-> what]

\* List<T>::MIN_CAPACITY
LIST_MIN_CAPACITY == 32

\* Set<T>: MIN_BINS, GROW_THRESHOLD, SHRINK_THRESHOLD, and BIN_EMPTY, which
\* is static_cast<uint32>( -1 ): no index reaches it, and it is written -1
MIN_BINS == 32
GROW_THRESHOLD == 70
SHRINK_THRESHOLD == 30
BIN_EMPTY == -1

\* Map<K, V>: the same four
MAP_MIN_BINS == 32
MAP_GROW_THRESHOLD == 70
MAP_SHRINK_THRESHOLD == 30
MAP_BIN_EMPTY == -1

(***************************************************************************)
(* Reference sequences.                                                    *)
(***************************************************************************)
SeqInsert(s, i, v) ==
    SubSeq(s, 1, i) \o <<v>> \o SubSeq(s, i + 1, Len(s))

SeqRemove(s, i) ==
    SubSeq(s, 1, i) \o SubSeq(s, i + 2, Len(s))

(***************************************************************************)
(* MemoryUtils  (memory_utils.h)                                           *)
(***************************************************************************)
\* MemoryUtils::copy( src, dst, count ): dst[i] = src[i] for i < count.  src
\* and dst are arrays, srcAt and dstAt the offsets of the two pointers in
\* them; the result is the array dst afterwards, a slot past its end not
\* being part of it.  MemoryUtils::move is the same with std::move.
MemoryUtils_copy(src, srcAt, dst, dstAt, count) ==
    [i \in DOMAIN dst |->
        IF i >= dstAt /\ i < dstAt + count THEN src[srcAt + (i - dstAt)]
        ELSE dst[i]]

(***************************************************************************)
(* DynamicArray<T>  (dynamic_array.h)                                      *)
(***************************************************************************)
\* DynamicArray(): _first 0, _size 0, _capacity MIN_CAPACITY, new T[_capacity]
DA_new ==
    [ values   |-> [i \in 0 .. MIN_CAPACITY - 1 |-> Unspecified],
      first    |-> 0,
      size     |-> 0,
      capacity |-> MIN_CAPACITY ]

\* while ( c < capacity ) c <<= 1;
RECURSIVE DoubleUpTo(_, _)
DoubleUpTo(c, capacity) ==
    IF c < capacity THEN DoubleUpTo(c * 2, capacity) ELSE c

\* DynamicArray( capacity )
DA_newCap(capacity) ==
    LET c == DoubleUpTo(MIN_CAPACITY, capacity)
    IN  [ values   |-> [i \in 0 .. c - 1 |-> Unspecified],
          first    |-> 0,
          size     |-> 0,
          capacity |-> c ]

\* ( _first + index ) & ( _capacity - 1 ); _capacity is a power of two
DA_wrap(a, index) ==
    (a.first + index) % a.capacity

DA_shouldGrow(a) ==
    a.size >= a.capacity

\* DA_shouldShrink holding whenever the buffer is not full
DA_shouldShrink_whenNotFull(a) ==
    a.size < a.capacity /\ a.capacity > MIN_CAPACITY

DA_shouldShrink(a) ==
    a.size <= (a.capacity \div 4) /\ a.capacity > MIN_CAPACITY

\* operator[]: _values[wrap( index )]
DA_get(a, index) ==
    a.values[DA_wrap(a, index)]

\* ( *this )[index] = value
DA_set(a, index, v) ==
    [a EXCEPT !.values[DA_wrap(a, index)] = v]

\* at( index )
DA_at(a, index) ==
    IF index >= a.size THEN Thrown("runtime_error")
    ELSE Returned(a.values[DA_wrap(a, index)])

\* DA_resize without the loop that moves the values
DA_resize_noMove(a, newCapacity) ==
    [ values   |-> [i \in 0 .. newCapacity - 1 |-> Unspecified],
      first    |-> 0,
      size     |-> a.size,
      capacity |-> newCapacity ]

\* a new buffer of newCapacity slots; the _size live values are moved to its
\* start from oldValues[( oldFirst + i ) % oldCapacity]; _first = 0
DA_resize(a, newCapacity) ==
    [ values   |-> [i \in 0 .. newCapacity - 1 |->
                      IF i < a.size
                      THEN a.values[(a.first + i) % a.capacity]
                      ELSE Unspecified],
      first    |-> 0,
      size     |-> a.size,
      capacity |-> newCapacity ]

\* DA_grow adding half of the capacity instead of doubling
DA_grow_byHalf(a) ==
    DA_resize(a, a.capacity + a.capacity \div 2)

DA_grow(a) ==
    DA_resize(a, a.capacity * 2)

DA_shrink(a) ==
    DA_resize(a, a.capacity \div 2)

\* for ( i = _size; i > start; --i )
\*     _values[wrap( i )] = std::move( _values[wrap( i - 1 )] );
RECURSIVE DA_shiftForwardFrom(_, _, _)
DA_shiftForwardFrom(a, i, start) ==
    IF i > start
    THEN DA_shiftForwardFrom(
             [a EXCEPT !.values[DA_wrap(a, i)] = a.values[DA_wrap(a, i - 1)],
                       !.values[DA_wrap(a, i - 1)] = Unspecified],
             i - 1, start)
    ELSE a

\* DA_shiftForward moving nothing
DA_shiftForward_none(a, start) ==
    a

DA_shiftForward(a, start) ==
    DA_shiftForwardFrom(a, a.size, start)

\* for ( i = start; i < _size - 1; ++i )
\*     _values[wrap( i )] = std::move( _values[wrap( i + 1 )] );
RECURSIVE DA_shiftBackwardFrom(_, _)
DA_shiftBackwardFrom(a, i) ==
    IF i < a.size - 1
    THEN DA_shiftBackwardFrom(
             [a EXCEPT !.values[DA_wrap(a, i)] = a.values[DA_wrap(a, i + 1)],
                       !.values[DA_wrap(a, i + 1)] = Unspecified],
             i + 1)
    ELSE a

DA_shiftBackward(a, start) ==
    DA_shiftBackwardFrom(a, start)

DA_push(a, v) ==
    LET g == IF DA_shouldGrow(a) THEN DA_grow(a) ELSE a
        s == [g EXCEPT !.size = g.size + 1]
    IN  DA_set(s, s.size - 1, v)

\* DA_pushFront with _first = _first - 1 stopping at 0 instead of wrapping
DA_pushFront_noWrap(a, v) ==
    LET g == IF DA_shouldGrow(a) THEN DA_grow(a) ELSE a
        f == [g EXCEPT !.first = IF g.first > 0 THEN g.first - 1 ELSE 0]
        s == [f EXCEPT !.size = f.size + 1]
    IN  DA_set(s, 0, v)

DA_pushFront(a, v) ==
    LET g == IF DA_shouldGrow(a) THEN DA_grow(a) ELSE a
        f == [g EXCEPT !.first = IF g.first > 0 THEN g.first - 1
                                 ELSE g.capacity - 1]
        s == [f EXCEPT !.size = f.size + 1]
    IN  DA_set(s, 0, v)

\* index <= _size (otherwise it throws, the array unchanged)
DA_insertAt(a, index, v) ==
    LET g == IF DA_shouldGrow(a) THEN DA_grow(a) ELSE a
        h == DA_shiftForward(g, index)
        s == [h EXCEPT !.size = h.size + 1]
    IN  DA_set(s, index, v)

\* insertAt( index, value ) with any index: if ( index > _size ) throw;
\* gives the array after the call and what the call gave back
DA_insertAtOrThrow(a, index, v) ==
    IF index > a.size
    THEN [arr |-> a, ret |-> Thrown("runtime_error")]
    ELSE [arr |-> DA_insertAt(a, index, v), ret |-> Returned(NoRet)]

\* The removing operations give the array after the call and the value
\* returned.
DA_pop(a) ==
    LET g == IF DA_shouldShrink(a) THEN DA_shrink(a) ELSE a
        elem == DA_get(g, g.size - 1)
        m == DA_set(g, g.size - 1, Unspecified)
    IN  [arr |-> [m EXCEPT !.size = m.size - 1], ret |-> elem]

DA_popFront(a) ==
    LET g == IF DA_shouldShrink(a) THEN DA_shrink(a) ELSE a
        elem == DA_get(g, 0)
        m == DA_set(g, 0, Unspecified)
    IN  [arr |-> [m EXCEPT !.first = m.first + 1, !.size = m.size - 1],
         ret |-> elem]

\* index < _size (otherwise it throws, the array unchanged)
DA_removeAt(a, index) ==
    LET g == IF DA_shouldShrink(a) THEN DA_shrink(a) ELSE a
        elem == DA_get(g, index)
        m == DA_set(g, index, Unspecified)
        h == DA_shiftBackward(m, index)
    IN  [arr |-> [h EXCEPT !.size = h.size - 1], ret |-> elem]

\* if ( index >= _size ) throw std::runtime_error( "Index is out of bounds!" )
\* index is a uint32; (uint32)-1 is written -1
DA_indexOutOfBounds(a, index) ==
    index = -1 \/ index >= a.size

\* for ( i = 0, found = false; !found && i < _size; ++i )
\*     if ( ( *this )[i] == value ) found = true;
RECURSIVE DA_indexOfLoop(_, _, _, _)
DA_indexOfLoop(a, value, i, found) ==
    IF ~found /\ i < a.size
    THEN DA_indexOfLoop(a, value, i + 1, DA_get(a, i) = value)
    ELSE [i |-> i, found |-> found]

\* return found ? --i : (uint32)-1
DA_indexOfResult(r) ==
    IF r.found THEN r.i - 1 ELSE -1

DA_indexOf(a, value) ==
    DA_indexOfResult(DA_indexOfLoop(a, value, 0, FALSE))

\* removeAt( index ) as remove calls it, with any index: gives the array
\* after the call and how the call ended, "true" for the return after the
\* removal, "runtime_error" for the throw, "assert" for the failed
\* assert( _size > 0 ) of a build with asserts
DA_removeAtIndex(a, index, b) ==
    IF b = "debug" /\ ~(a.size > 0)
    THEN [arr |-> a, ret |-> "assert"]
    ELSE IF DA_indexOutOfBounds(a, index)
    THEN [arr |-> a, ret |-> "runtime_error"]
    ELSE [arr |-> DA_removeAt(a, index).arr, ret |-> "true"]

\* remove( value ) in build b: index = indexOf( value );
\* if ( value == (uint32)-1 ) return false; removeAt( index ); return true;
DA_remove(a, value, b) ==
    IF value = -1
    THEN [arr |-> a, ret |-> "false"]
    ELSE DA_removeAtIndex(a, DA_indexOf(a, value), b)

\* What the slots of a new T[count] may hold, which new does not
\* initialise: the same value in every slot, one of the values pushed or the
\* odd value.
DA_Fresh(count) ==
    {[i \in 0 .. count - 1 |-> g] : g \in 0 .. NumVals}

\* a = array._capacity - ( array._first + array._size ); if ( a >= 
\* array._size ): in uint32, a negative difference wraps around to a value
\* of at least 2^32 - 2 * _capacity
DA_oneRun(array) ==
    \/ array.first + array.size > array.capacity
    \/ array.capacity - (array.first + array.size) >= array.size

\* The calls of MemoryUtils::copy (::move) of the copy (move) constructor
\* and assignment: values is the new buffer _values, and the first
\* argument of copy is the source, so that the slots of the new buffer are
\* written to array._values; gives array._values afterwards.
DA_copyRuns(array, values) ==
    IF DA_oneRun(array)
    THEN MemoryUtils_copy(values, 0, array.values, array.first, array.size)
    ELSE MemoryUtils_copy(
             values, array.capacity - (array.first + array.size),
             MemoryUtils_copy(values, 0, array.values, array.first,
                              array.capacity - (array.first + array.size)),
             0, (array.first + array.size) % array.capacity)

\* the one run goes past the end of array._values
DA_copyOverruns(array) ==
    array.first + array.size > array.capacity

\* DynamicArray( const DynamicArray& array ), fresh being what the new
\* buffer holds: gives the copy and array afterwards
DA_copyConstruct(array, fresh) ==
    [ copy   |-> [ values |-> fresh, first |-> 0, size |-> array.size,
                   capacity |-> array.capacity ],
      source |-> [array EXCEPT !.values = DA_copyRuns(array, fresh)] ]

\* operator=( const DynamicArray& array ): the buffer held is released,
\* then as the constructor
DA_copyAssign(array, fresh) ==
    DA_copyConstruct(array, fresh)

\* array after a move: _values nullptr, _first, _size and _capacity 0
DA_movedFrom ==
    [ values |-> [i \in {} |-> Unspecified], first |-> 0, size |-> 0,
      capacity |-> 0 ]

\* DynamicArray( DynamicArray&& array ) and operator=( DynamicArray&& ):
\* a new buffer, the calls of MemoryUtils::move, and array reset
DA_moveConstruct(array, fresh) ==
    [ copy   |-> [ values |-> fresh, first |-> 0, size |-> array.size,
                   capacity |-> array.capacity ],
      source |-> DA_movedFrom ]

\* what a caller reads: array[0], ..., array[size() - 1]
DA_contents(a) ==
    [i \in 1 .. a.size |-> DA_get(a, i - 1)]

(***************************************************************************)
(* List<T>  (list.h)                                                       *)
(***************************************************************************)
\* new Node[count]: next, prev and value are not initialised
L_rawNode == [next |-> Unspecified, prev |-> Unspecified, value |-> Unspecified]

\* List(): _first 0, _count 0, _firstFree 0, _freeCount 0, LIST_MIN_CAPACITY nodes
L_new ==
    [ nodes     |-> [i \in 0 .. LIST_MIN_CAPACITY - 1 |-> L_rawNode],
      first     |-> 0,
      count     |-> 0,
      firstFree |-> 0,
      freeCount |-> 0,
      capacity  |-> LIST_MIN_CAPACITY ]

L_shouldGrow(l) ==
    l.count >= l.capacity

L_shouldShrink(l) ==
    l.count <= (l.capacity \div 4) /\ l.capacity > LIST_MIN_CAPACITY

L_hasFree(l) ==
    l.freeCount > 0

\* cur = _nodes[cur].next, steps times
RECURSIVE L_walkNext(_, _, _)
L_walkNext(l, cur, steps) ==
    IF steps > 0 THEN L_walkNext(l, l.nodes[cur].next, steps - 1) ELSE cur

\* cur = _nodes[cur].prev, steps times
RECURSIVE L_walkPrev(_, _, _)
L_walkPrev(l, cur, steps) ==
    IF steps > 0 THEN L_walkPrev(l, l.nodes[cur].prev, steps - 1) ELSE cur

\* index = _count - index for an index > _count: the uint32 wraps to
\* 2^32 - ( index - _count ).  In a ring of count nodes, that many steps
\* along prev end where this many steps do (2^32 is 65536 * 65536).
L_wrappedSteps(count, index) ==
    ((65536 % count) * (65536 % count) + (count - 1) * (index - count))
        % count

L_getNodePos(l, index) ==
    IF index <= l.count \div 2
    THEN L_walkNext(l, l.first, index)
    ELSE IF index <= l.count
    THEN L_walkPrev(l, l.first, l.count - index)
    ELSE L_walkPrev(l, l.first, L_wrappedSteps(l.count, index))

\* operator[]: getNodeAt( index ).value
L_get(l, index) ==
    l.nodes[L_getNodePos(l, index)].value

\* at( index )
L_at(l, index) ==
    IF index >= l.count THEN Thrown("runtime_error")
    ELSE Returned(l.nodes[L_getNodePos(l, index)].value)

\* _nodes[j].next = v
L_setNext(l, j, v) ==
    [l EXCEPT !.nodes[j].next = v]

\* _nodes[j].prev = v
L_setPrev(l, j, v) ==
    [l EXCEPT !.nodes[j].prev = v]

\* newList[i] for 1 <= i < _count - 1, cur walking the live nodes
RECURSIVE L_copyNodes(_, _, _, _)
L_copyNodes(l, newList, i, cur) ==
    IF i < l.count - 1
    THEN L_copyNodes(l,
             [newList EXCEPT ![i] = [value |-> l.nodes[cur].value,
                                     next |-> i + 1, prev |-> i - 1]],
             i + 1, l.nodes[cur].next)
    ELSE [newList |-> newList, cur |-> cur]

\* the end of resize: the last node is written (with _count = 1 the uint32
\* _count - 2 wraps; it is written here as -1) and the fields are set
L_resizeLast(l, size, r) ==
    [ nodes     |-> [r.newList EXCEPT
                        ![l.count - 1] = [value |-> l.nodes[r.cur].value,
                                          next |-> 0,
                                          prev |-> l.count - 2]],
      first     |-> 0,
      count     |-> l.count,
      firstFree |-> 0,
      freeCount |-> 0,
      capacity  |-> size ]

\* resize from cur = getNodePos( 0 ) on: the first node is written, then the
\* inner ones, then the last
L_resizeFrom(l, size, cur0) ==
    L_resizeLast(l, size,
        L_copyNodes(l,
            [[i \in 0 .. size - 1 |-> L_rawNode] EXCEPT
                ![0] = [value |-> l.nodes[cur0].value,
                        prev |-> l.count - 1, next |-> 1]],
            1, l.nodes[cur0].next))

\* resize( size ), for _count >= 1
L_resize(l, size) ==
    L_resizeFrom(l, size, L_getNodePos(l, 0))

L_grow(l) ==
    L_resize(l, l.capacity * 2)

L_shrink(l) ==
    L_resize(l, l.capacity \div 2)

\* _nodes[node.prev].next = node.next; _nodes[node.next].prev = node.prev;
\* node is a reference to _nodes[pos], read again after the first write
L_unlinkPrev(l, pos) ==
    L_setNext(l, l.nodes[pos].prev, l.nodes[pos].next)

L_unlinkNext(l, pos) ==
    L_setPrev(l, l.nodes[pos].next, l.nodes[pos].prev)

L_unlink(l, pos) ==
    L_unlinkNext(L_unlinkPrev(l, pos), pos)

\* popFreeNodeAndGetPos after --_freeCount; gives the list after the call
\* and the position returned
L_popFreeDecremented(c, pos) ==
    IF c.freeCount <= 0
    THEN [list |-> [c EXCEPT !.firstFree = 0], pos |-> pos]
    ELSE [list |-> [L_unlink(c, pos) EXCEPT
                       !.firstFree = L_unlink(c, pos).nodes[pos].next],
          pos |-> pos]

L_popFreeNodeAndGetPos(l) ==
    L_popFreeDecremented([l EXCEPT !.freeCount = l.freeCount - 1],
                         l.firstFree)

\* pushFree before ++_freeCount
L_pushFreeLink(l, index) ==
    IF ~L_hasFree(l)
    THEN [l EXCEPT !.nodes[index].prev = index,
                   !.nodes[index].next = index,
                   !.firstFree = index]
    ELSE L_setNext(L_setPrev(l, l.firstFree, index),
                   L_setPrev(l, l.firstFree, index).nodes[l.firstFree].prev,
                   index)

L_incFreeCount(l) ==
    [l EXCEPT !.freeCount = l.freeCount + 1]

L_pushFree(l, index) ==
    L_incFreeCount(L_pushFreeLink(l, index))

\* insertAtPos, branch _count > 0 && index == _count; node is the caller's
\* local Node holding the value; gives the list and the node
L_linkLast(f, pos, value) ==
    [list |-> L_setPrev(L_setNext(f, f.nodes[f.first].prev, pos),
                        f.first, pos),
     node |-> [value |-> value,
               prev |-> f.nodes[f.first].prev,
               next |-> f.first]]

\* insertAtPos, last branch, target = getNodePos( index )
L_linkBefore(f, pos, target, value) ==
    [list |-> L_setPrev(L_setNext(f, f.nodes[target].prev, pos),
                        target, pos),
     node |-> [value |-> value,
               next |-> target,
               prev |-> f.nodes[target].prev]]

L_insertLink(f, pos, index, value) ==
    IF f.count > 0 /\ index = f.count
    THEN L_linkLast(f, pos, value)
    ELSE IF f.count <= 0
    THEN [list |-> f, node |-> [value |-> value, prev |-> pos, next |-> pos]]
    ELSE L_linkBefore(f, pos, L_getNodePos(f, index), value)

\* _nodes[pos] = std::move( node ); ++_count;
L_storeNode(l, pos, node) ==
    [l EXCEPT !.nodes[pos] = node, !.count = l.count + 1]

\* if ( index <= 0 ) _first = pos; and the store
L_insertStore(linked, pos, index) ==
    L_storeNode(IF index <= 0 THEN [linked.list EXCEPT !.first = pos]
                ELSE linked.list,
                pos, linked.node)

\* insertAtPos once pos is known: p is the list and pos
L_insertPopped(p, index, value) ==
    L_insertStore(L_insertLink(p.list, p.pos, index, value), p.pos, index)

\* insertAtPos after the grow: pos = hasFree() ? popFreeNodeAndGetPos()
\*                                              : _count
L_insertGrown(g, index, value) ==
    L_insertPopped(IF L_hasFree(g) THEN L_popFreeNodeAndGetPos(g)
                   ELSE [list |-> g, pos |-> g.count],
                   index, value)

\* index <= _count
L_insertAtPos(l, index, value) ==
    L_insertGrown(IF L_shouldGrow(l) THEN L_grow(l) ELSE l, index, value)

L_insertAt(l, index, value) ==
    L_insertAtPos(l, index, value)

\* insertAt( index, value ) with any index: insertAtPos starts with
\* assert( index <= _count ) and has no other check; gives the list after
\* the call and what the call gave back
L_insertAtAsserted(l, index, value, b) ==
    IF b = "debug" /\ ~(index <= l.count)
    THEN [list |-> l, ret |-> Thrown("assert")]
    ELSE [list |-> L_insertAtPos(l, index, value), ret |-> Returned(NoRet)]

L_push(l, value) ==
    L_insertAt(l, l.count, value)

L_pushFront(l, value) ==
    L_insertAt(l, 0, value)

\* the end of removeAt: --_count; return node.value; node is a reference to
\* _nodes[pos]; gives the list after the call and the value returned
L_removeFreed(l, pos) ==
    [list |-> [l EXCEPT !.count = l.count - 1],
     ret |-> l.nodes[pos].value]

\* removeAt from pos = getNodePos( index ) on
L_removeNode(g, pos) ==
    L_removeFreed(
        L_pushFree(
            L_unlink(IF g.count > 0 /\ g.first = pos
                     THEN [g EXCEPT !.first = g.nodes[pos].next]
                     ELSE g,
                     pos),
            pos),
        pos)

\* removeAt after the shrink
L_removeShrunk(g, index) ==
    L_removeNode(g, L_getNodePos(g, index))

\* index < _count
L_removeAt(l, index) ==
    L_removeShrunk(IF L_shouldShrink(l) THEN L_shrink(l) ELSE l, index)

L_pop(l) ==
    L_removeAt(l, l.count - 1)

L_popFront(l) ==
    L_removeAt(l, 0)

\* for ( pos = _first, steps = 0, ret = -1;
\*       ret == -1 && steps > 0 && pos != _first;
\*       pos = _nodes[_first].next, ++steps )
\*     if ( _nodes[pos].value == value ) ret = pos;
\* (uint32)-1 is written -1
RECURSIVE L_indexOfLoop(_, _, _, _, _)
L_indexOfLoop(l, value, pos, steps, r) ==
    IF r = -1 /\ steps > 0 /\ pos # l.first
    THEN L_indexOfLoop(l, value, l.nodes[l.first].next, steps + 1,
                       IF l.nodes[pos].value = value THEN pos ELSE r)
    ELSE r

L_indexOf(l, value) ==
    IF l.count <= 0 THEN -1
    ELSE L_indexOfLoop(l, value, l.first, 0, -1)

\* for ( pos = _first, steps = 0, found = false;
\*       !found && steps > 0 && pos != _first;
\*       pos = _nodes[_first].next, ++steps )
\*     found = _nodes[pos].value == value;
RECURSIVE L_hasLoop(_, _, _, _, _)
L_hasLoop(l, value, pos, steps, found) ==
    IF ~found /\ steps > 0 /\ pos # l.first
    THEN L_hasLoop(l, value, l.nodes[l.first].next, steps + 1,
                   l.nodes[pos].value = value)
    ELSE found

L_has(l, value) ==
    IF l.count <= 0 THEN FALSE
    ELSE L_hasLoop(l, value, l.first, 0, FALSE)

\* What the nodes of a new Node[count] may hold, which new does not
\* initialise: the same in every field of every node, 0, 1 or the value no
\* operation assigns.
L_Fresh(count) ==
    {[i \in 0 .. count - 1 |-> [next |-> x, prev |-> x, value |-> x]] :
        x \in {0, 1, Unspecified}}

\* the loop of the copy and move constructors and assignments:
\* for ( i = 1; i < _count; ++i )
\* {
\*     _nodes[i].value = list[i];
\*     _nodes->next = ( i + 1 ) % _count;
\*     _nodes->prev = i - 1;
\* }
\* _nodes->next and _nodes->prev are fields of _nodes[0]
RECURSIVE L_copyLoop(_, _, _)
L_copyLoop(src, nodes, i) ==
    IF i < src.count
    THEN L_copyLoop(src,
                    [nodes EXCEPT ![i].value = L_get(src, i),
                                  ![0].next = (i + 1) % src.count,
                                  ![0].prev = i - 1],
                    i + 1)
    ELSE nodes

\* the nodes of the copy: fresh is what the new nodes hold
L_copyNodesOf(src, fresh) ==
    IF src.count > 0
    THEN L_copyLoop(src,
                    [fresh EXCEPT ![0] = [value |-> L_get(src, 0),
                                          prev |-> src.count - 1,
                                          next |-> 1 % src.count]],
                    1)
    ELSE fresh

\* List( const List& list ): fresh is what the nodes of the new array
\* hold, an array of DoubleUpTo( MIN_CAPACITY, _count ) nodes
L_copyConstruct(src, fresh) ==
    [ nodes     |-> L_copyNodesOf(src, fresh),
      first     |-> 0,
      count     |-> src.count,
      firstFree |-> 0,
      freeCount |-> 0,
      capacity  |-> DoubleUpTo(LIST_MIN_CAPACITY, src.count) ]

\* operator=( const List& list ): the nodes held are released, then as the
\* constructor
L_copyAssign(src, fresh) ==
    L_copyConstruct(src, fresh)

\* list after a move: _nodes nullptr, everything else 0
L_movedFrom ==
    [ nodes     |-> [i \in {} |-> L_rawNode],
      first     |-> 0,
      count     |-> 0,
      firstFree |-> 0,
      freeCount |-> 0,
      capacity  |-> 0 ]

\* List( List&& list ) and operator=( List&& list ): the same loop with
\* std::move( list[i] ), then the nodes of list are released and list is
\* reset; gives the new list and list afterwards
L_moveConstruct(src, fresh) ==
    [ copy   |-> L_copyConstruct(src, fresh),
      source |-> L_movedFrom ]

\* what a caller reads: list[0], ..., list[size() - 1]
L_contents(l) ==
    [i \in 1 .. l.count |-> L_get(l, i - 1)]

(***************************************************************************)
(* Set<T>  (set.h)                                                         *)
(***************************************************************************)
\* The keys the set and the map are used with, and the hash function they
\* are constructed with: 1 and 33 (and 65) start in the same bin of 32, and
\* 1 and 65 have the same hash code.
Keys == {1, 2, 33, 65}

hashFunc(k) ==
    k % (2 * MIN_BINS)

\* keys with different hash codes
PlainKeys == {1, 2, 33}

\* a hash function of the caller under which the hash codes of all the Keys
\* differ, those of 1 and 65 falling into one of 64 bins
hashFuncWide(k) ==
    k % (4 * MIN_BINS)

\* a hash function of the caller that gives the key as its own hash code
hashFuncOwn(k) ==
    k

\* MemoryUtils::set( array, value, count )
MemoryUtils_set(value, count) ==
    [i \in 0 .. count - 1 |-> value]

\* Set( capacity, hashFunc ); Set( hashFunc ) is S_new(0)
S_new(capacity) ==
    LET n == DoubleUpTo(MIN_BINS, capacity)
    IN  [ values    |-> DA_newCap(capacity),
          hashFunc  |-> "hashFunc",
          bins      |-> MemoryUtils_set(BIN_EMPTY, n),
          binsInUse |-> 0,
          binCount  |-> n ]

\* Set( capacity, hashFuncWide )
S_newWide(capacity) ==
    [S_new(capacity) EXCEPT !.hashFunc = "hashFuncWide"]

\* _hashFunc( value )
S_hash(s, value) ==
    IF s.hashFunc = "hashFuncWide" THEN hashFuncWide(value)
    ELSE IF s.hashFunc = "hashFuncOwn" THEN hashFuncOwn(value)
    ELSE hashFunc(value)

S_probe(s, probes) ==
    probes

\* index & ( _binCount - 1 ); _binCount is a power of two
S_wrap_byTwice(s, index) ==
    index % (2 * s.binCount)

S_wrap(s, index) ==
    index % s.binCount

S_isBinEmpty(s, binIndex) ==
    s.bins[binIndex] = BIN_EMPTY

S_doesBinContain(s, binIndex, value) ==
    /\ binIndex < s.binCount
    /\ ~S_isBinEmpty(s, binIndex)
    /\ S_hash(s, DA_get(s.values, s.bins[binIndex])) = S_hash(s, value)

\* for ( i = wrap( hashCode ), probes = 0;
\*       !isBinEmpty( i ) && !doesBinContain( i, value );
\*       i = probe( ++probes ) )
RECURSIVE S_findBinFrom(_, _, _, _)
S_findBinFrom(s, value, i, probes) ==
    IF ~S_isBinEmpty(s, i) /\ ~S_doesBinContain(s, i, value)
    THEN S_findBinFrom(s, value, S_probe(s, probes + 1), probes + 1)
    ELSE i

S_findBinForValue(s, value) ==
    S_findBinFrom(s, value, S_wrap(s, S_hash(s, value)), 0)

S_shouldShrink(s) ==
    /\ (s.binsInUse * 100) \div s.binCount <= SHRINK_THRESHOLD
    /\ s.binCount > MIN_BINS

S_shouldGrow(s) ==
    (s.binsInUse * 100) \div s.binCount >= GROW_THRESHOLD

S_clearBins(s) ==
    [s EXCEPT !.bins = MemoryUtils_set(BIN_EMPTY, s.binCount)]

\* for ( i = 0; i < _values.size(); ++i )
\*     { pos = findBinForValue( _values[i] ); _bins[pos] = i; }
RECURSIVE S_rehashFrom(_, _)
S_rehashFrom(s, i) ==
    IF i < s.values.size
    THEN S_rehashFrom(
             [s EXCEPT !.bins[S_findBinForValue(s, DA_get(s.values, i))] = i],
             i + 1)
    ELSE s

S_resize_withoutRehash(s, newSize) ==
    S_clearBins([s EXCEPT !.binCount = newSize])

S_resize(s, newSize) ==
    S_rehashFrom(S_clearBins([s EXCEPT !.binCount = newSize]), 0)

S_grow(s) ==
    S_resize(s, s.binCount * 2)

S_shrink(s) ==
    S_resize(s, s.binCount \div 2)

S_add(s, value) ==
    LET g == IF S_shouldGrow(s) THEN S_grow(s) ELSE s
        binIndex == S_findBinForValue(g, value)
    IN  IF S_isBinEmpty(g, binIndex)
        THEN [g EXCEPT !.binsInUse = g.binsInUse + 1,
                       !.bins[binIndex] = g.values.size,
                       !.values = DA_push(g.values, value)]
        ELSE g

\* The loop that corrects the bin indices compares with _bins[binIndex],
\* which it never changes.
S_remove(s, value) ==
    LET g == IF S_shouldShrink(s) THEN S_shrink(s) ELSE s
        binIndex == S_findBinForValue(g, value)
    IN  IF ~S_isBinEmpty(g, binIndex)
        THEN LET r == [g EXCEPT
                          !.binsInUse = g.binsInUse - 1,
                          !.values = DA_removeAt(g.values, g.bins[binIndex]).arr]
                 c == [r EXCEPT !.bins =
                          [i \in 0 .. r.binCount - 1 |->
                              IF ~S_isBinEmpty(r, i) /\ r.bins[i] > r.bins[binIndex]
                              THEN r.bins[i] - 1
                              ELSE r.bins[i]]]
             IN  [c EXCEPT !.bins[binIndex] = BIN_EMPTY]
        ELSE g

S_has(s, value) ==
    LET binIndex == S_findBinForValue(s, value)
    IN  binIndex # -1 /\ S_doesBinContain(s, binIndex, value)

S_size(s) ==
    s.values.size

\* the values an iteration from cbegin() to cend() gives
S_contents(s) ==
    DA_contents(s.values)

(***************************************************************************)
(* Map<K, V>  (map.h).  map.h names a few things that do not exist; they   *)
(* are read as what they stand for: capcity as capacity, T as K, value in  *)
(* remove as key, _values in size as _pairs, hash( pair ) as               *)
(* hash( pair.key ), MemoryUtils::map as MemoryUtils::set.                 *)
(***************************************************************************)
\* Map( capacity, hashFunc ); Map( hashFunc ) is M_new(MAP_MIN_BINS)
M_new(capacity) ==
    LET n == DoubleUpTo(MAP_MIN_BINS, capacity)
    IN  [ pairs     |-> DA_newCap(capacity),
          bins      |-> MemoryUtils_set(MAP_BIN_EMPTY, n),
          binsInUse |-> 0,
          binCount  |-> n ]

M_hash(m, key) ==
    hashFunc(key)

M_probe(m, probes) ==
    probes

M_wrap(m, index) ==
    index % m.binCount

M_isBinEmpty(m, binIndex) ==
    m.bins[binIndex] = MAP_BIN_EMPTY

M_doesBinContain(m, binIndex, key) ==
    /\ binIndex < m.binCount
    /\ ~M_isBinEmpty(m, binIndex)
    /\ M_hash(m, DA_get(m.pairs, m.bins[binIndex]).key) = M_hash(m, key)

\* for ( i = wrap( hashCode ), probes = 0;
\*       !isBinEmpty( i ) && !doesBinContain( i, key );
\*       i = wrap( i + probe( ++probes ) ) )
RECURSIVE M_findBinFrom(_, _, _, _)
M_findBinFrom(m, key, i, probes) ==
    IF ~M_isBinEmpty(m, i) /\ ~M_doesBinContain(m, i, key)
    THEN M_findBinFrom(m, key, M_wrap(m, i + M_probe(m, probes + 1)),
                       probes + 1)
    ELSE i

M_findBinForKey(m, key) ==
    M_findBinFrom(m, key, M_wrap(m, M_hash(m, key)), 0)

M_shouldShrink(m) ==
    /\ (m.binsInUse * 100) \div m.binCount <= MAP_SHRINK_THRESHOLD
    /\ m.binCount > MAP_MIN_BINS

M_shouldGrow(m) ==
    (m.binsInUse * 100) \div m.binCount >= MAP_GROW_THRESHOLD

M_clearBins(m) ==
    [m EXCEPT !.bins = MemoryUtils_set(MAP_BIN_EMPTY, m.binCount)]

RECURSIVE M_rehashFrom(_, _)
M_rehashFrom(m, i) ==
    IF i < m.pairs.size
    THEN M_rehashFrom(
             [m EXCEPT !.bins[M_findBinForKey(m, DA_get(m.pairs, i).key)] = i],
             i + 1)
    ELSE m

M_resize(m, newSize) ==
    M_rehashFrom(M_clearBins([m EXCEPT !.binCount = newSize]), 0)

M_grow(m) ==
    M_resize(m, m.binCount * 2)

M_shrink(m) ==
    M_resize(m, m.binCount \div 2)

\* _pairs[binIndex].value = value, in a build without asserts: the slot
\* wrap( binIndex ) of the pairs' buffer gets the value, whether it is one of
\* the _size live slots or not
M_setPairValue(pairs, index, value) ==
    LET slot == DA_wrap(pairs, index)
        old == IF index < pairs.size THEN pairs.values[slot].key
               ELSE Unspecified
    IN  [pairs EXCEPT !.values[slot] = [key |-> old, value |-> value]]

\* gives the map after the call, and whether operator[]'s
\* assert( index < _size ) failed on the way
M_assign(m, key, value) ==
    LET g == IF M_shouldGrow(m) THEN M_grow(m) ELSE m
        binIndex == M_findBinForKey(g, key)
    IN  IF M_isBinEmpty(g, binIndex)
        THEN [map |-> [g EXCEPT
                          !.binsInUse = g.binsInUse + 1,
                          !.bins[binIndex] = g.pairs.size,
                          !.pairs = DA_push(g.pairs,
                                        [key |-> key, value |-> value])],
              asserted |-> FALSE]
        ELSE [map |-> [g EXCEPT
                          !.pairs = M_setPairValue(g.pairs, binIndex, value)],
              asserted |-> ~(binIndex < g.pairs.size)]

M_remove(m, key) ==
    LET g == IF M_shouldShrink(m) THEN M_shrink(m) ELSE m
        binIndex == M_findBinForKey(g, key)
    IN  IF ~M_isBinEmpty(g, binIndex)
        THEN LET r == [g EXCEPT
                          !.binsInUse = g.binsInUse - 1,
                          !.pairs = DA_removeAt(g.pairs, g.bins[binIndex]).arr]
                 c == [r EXCEPT !.bins =
                          [i \in 0 .. r.binCount - 1 |->
                              IF ~M_isBinEmpty(r, i) /\ r.bins[i] > r.bins[binIndex]
                              THEN r.bins[i] - 1
                              ELSE r.bins[i]]]
             IN  [c EXCEPT !.bins[binIndex] = MAP_BIN_EMPTY]
        ELSE g

M_hasKey(m, key) ==
    LET binIndex == M_findBinForKey(m, key)
    IN  binIndex # -1 /\ M_doesBinContain(m, binIndex, key)

M_size(m) ==
    m.pairs.size

\* the pairs an iteration from cbegin() to cend() gives
M_contents(m) ==
    DA_contents(m.pairs)

(***************************************************************************)
(* Memory  (default_allocator.h)                                           *)
(*                                                                         *)
(* Storage is a set of blocks, each an array of slots numbered from 0.  A  *)
(* block is "unused", "allocated" (handed out by new T[count]), "released" *)
(* (given to delete[]) or "caller" (an array of the caller that no         *)
(* allocator handed out).  A pointer is the number of a block; 0 is        *)
(* nullptr.                                                                *)
(***************************************************************************)
nullptr == 0

Blocks == 1 .. MaxBlocks

\* a block nobody has allocated yet
NoBlock == [data |-> [i \in {} |-> 0], state |-> "unused"]

HasNewBlock(w) ==
    \E b \in Blocks : w.heap[b].state = "unused"

\* the block the next new T[count] hands out
NewBlock(w) ==
    CHOOSE b \in Blocks :
        /\ w.heap[b].state = "unused"
        /\ \A c \in 1 .. b - 1 : w.heap[c].state # "unused"

\* what the slots of a new T[count] may hold: new does not initialise them
FreshData(count) ==
    [0 .. count - 1 -> 0 .. NumFixedVals]

\* DefaultAllocator::get( count ): new T[count], whose slots hold fresh
Allocator_get(w, count, fresh) ==
    [w EXCEPT !.heap[NewBlock(w)] = [data |-> fresh, state |-> "allocated"]]

\* DefaultAllocator::release( pointer, count ): delete[] pointer
Allocator_release(w, pointer) ==
    [w EXCEPT !.heap[pointer].state = "released"]

(***************************************************************************)
(* FixedArray<T>  (fixed_array.h)                                          *)
(*                                                                         *)
(* w is the storage (w.heap) and the FixedArray objects by name (w.objs);  *)
(* an object holds _values (a pointer), _size, _capacity, _isDataExternal, *)
(* and alive, which is FALSE before its construction and after its         *)
(* destruction.                                                            *)
(***************************************************************************)
Names == {"a", "b"}

NoObject ==
    [ values |-> nullptr, size |-> 0, capacity |-> 0,
      isDataExternal |-> FALSE, alive |-> FALSE ]

NoFixed ==
    [ heap |-> [b \in Blocks |-> NoBlock],
      objs |-> [n \in Names |-> NoObject] ]

\* the array _values points to
FA_data(w, n) ==
    w.heap[w.objs[n].values].data

\* FixedArray( allocator, capacity )
FA_new(w, n, capacity, fresh) ==
    [Allocator_get(w, capacity, fresh) EXCEPT
        !.objs[n] = [ values |-> NewBlock(w), size |-> 0,
                      capacity |-> capacity, isDataExternal |-> FALSE,
                      alive |-> TRUE ]]

\* wrap( data, size, capacity ): FixedArray( data, size, capacity )
FA_wrap(w, n, data, size, capacity) ==
    [w EXCEPT
        !.objs[n] = [ values |-> data, size |-> size, capacity |-> capacity,
                      isDataExternal |-> TRUE, alive |-> TRUE ]]

\* _values = _allocator.get( _capacity );
\* MemoryUtils::copy( _values, array._values, count );
\* copy's first parameter is the source: the slots of the new block are
\* written to the array that is copied
FA_getAndCopy(w, n, array, count, fresh) ==
    [Allocator_get(w, w.objs[array].capacity, fresh) EXCEPT
        !.objs[n] = [ values |-> NewBlock(w), size |-> w.objs[array].size,
                      capacity |-> w.objs[array].capacity,
                      isDataExternal |-> FALSE, alive |-> TRUE ],
        !.heap[w.objs[array].values].data =
            MemoryUtils_copy(fresh, 0, @, 0, count)]

\* FixedArray( const FixedArray& array )
FA_copyConstruct(w, n, array, fresh) ==
    FA_getAndCopy(w, n, array, w.objs[array].size, fresh)

\* the state a move leaves array in: the constructor clears
\* _isDataExternal, the assignment does not
FA_movedFrom(o, isDataExternal) ==
    [o EXCEPT !.values = nullptr, !.size = 0, !.capacity = 0,
              !.isDataExternal = isDataExternal]

\* FixedArray( FixedArray&& array )
FA_moveConstruct(w, n, array) ==
    [w EXCEPT !.objs[n] = w.objs[array],
              !.objs[array] = FA_movedFrom(@, FALSE)]

\* if ( !_isDataExternal && _values != nullptr )
\*     _allocator.release( _values, _capacity );
\* _values = nullptr;
FA_releaseOwn(w, n) ==
    IF ~w.objs[n].isDataExternal /\ w.objs[n].values # nullptr
    THEN [Allocator_release(w, w.objs[n].values) EXCEPT
              !.objs[n].values = nullptr]
    ELSE w

\* ~FixedArray()
FA_destroy(w, n) ==
    [FA_releaseOwn(w, n) EXCEPT !.objs[n].values = nullptr,
                                !.objs[n].alive = FALSE]

\* operator=( const FixedArray& array ): copies _capacity slots
FA_copyAssign(w, n, array, fresh) ==
    FA_getAndCopy(FA_releaseOwn(w, n), n, array, w.objs[array].capacity,
                  fresh)

\* operator=( FixedArray&& array )
FA_moveAssign(w, n, array) ==
    [FA_releaseOwn(w, n) EXCEPT
        !.objs[n] = w.objs[array],
        !.objs[array] = FA_movedFrom(@, @.isDataExternal)]

\* at( index )
FA_at(w, n, index) ==
    IF index >= w.objs[n].size THEN Thrown("runtime_error")
    ELSE Returned(FA_data(w, n)[index])

\* _values[index] = value
FA_store(w, n, index, value) ==
    [w EXCEPT !.heap[w.objs[n].values].data[index] = value]

\* ++_size
FA_incSize(w, n) ==
    [w EXCEPT !.objs[n].size = @ + 1]

\* --_size
FA_decSize(w, n) ==
    [w EXCEPT !.objs[n].size = @ - 1]

\* for ( i = _size; i > start; --i ) _values[i] = std::move( _values[i - 1] );
RECURSIVE FA_shiftForwardFrom(_, _, _)
FA_shiftForwardFrom(data, i, start) ==
    IF i > start
    THEN FA_shiftForwardFrom([data EXCEPT ![i] = data[i - 1]], i - 1, start)
    ELSE data

FA_shiftForward(w, n, start) ==
    [w EXCEPT !.heap[w.objs[n].values].data =
                  FA_shiftForwardFrom(@, w.objs[n].size, start)]

\* for ( i = start; i < _size - 1; ++i )
\*     _values[i] = std::move( _values[i + 1] );
RECURSIVE FA_shiftBackwardFrom(_, _, _)
FA_shiftBackwardFrom(data, i, size) ==
    IF i < size - 1
    THEN FA_shiftBackwardFrom([data EXCEPT ![i] = data[i + 1]], i + 1, size)
    ELSE data

\* FA_shiftBackward without its loop
FA_shiftBackward_none(w, n, start) ==
    w

FA_shiftBackward(w, n, start) ==
    [w EXCEPT !.heap[w.objs[n].values].data =
                  FA_shiftBackwardFrom(@, start, w.objs[n].size)]

\* push( value ): assert( _size < _capacity ); _values[_size++] = value;
FA_push(w, n, value, b) ==
    IF b = "debug" /\ ~(w.objs[n].size < w.objs[n].capacity)
    THEN [w |-> w, ret |-> Thrown("assert")]
    ELSE [w |-> FA_incSize(FA_store(w, n, w.objs[n].size, value), n),
          ret |-> Returned(NoRet)]

\* pushFront( value )
FA_pushFront(w, n, value, b) ==
    IF b = "debug" /\ ~(w.objs[n].size < w.objs[n].capacity)
    THEN [w |-> w, ret |-> Thrown("assert")]
    ELSE [w |-> FA_incSize(FA_store(FA_shiftForward(w, n, 0), n, 0, value),
                           n),
          ret |-> Returned(NoRet)]

\* insertAt( index, value ): overload is "copy" for insertAt( uint32,
\* const T& ), which throws a std::runtime_error, and "move" for
\* insertAt( uint32, T&& ), which throws a pointer to a new one
FA_insertAt(w, n, index, value, b, overload) ==
    IF b = "debug" /\ ~(w.objs[n].size < w.objs[n].capacity)
    THEN [w |-> w, ret |-> Thrown("assert")]
    ELSE IF index > w.objs[n].size
    THEN [w |-> w,
          ret |-> Thrown(IF overload = "copy" THEN "runtime_error"
                         ELSE "runtime_error*")]
    ELSE [w |-> FA_store(FA_incSize(FA_shiftForward(w, n, index), n), n,
                         index, value),
          ret |-> Returned(NoRet)]

\* pop(): assert( _size > 0 ); T elem = std::move( _values[--_size] );
FA_pop(w, n, b) ==
    IF b = "debug" /\ ~(w.objs[n].size > 0)
    THEN [w |-> w, ret |-> Thrown("assert")]
    ELSE [w |-> FA_decSize(w, n),
          ret |-> Returned(FA_data(w, n)[w.objs[n].size - 1])]

\* popFront()
FA_popFront(w, n, b) ==
    IF b = "debug" /\ ~(w.objs[n].size > 0)
    THEN [w |-> w, ret |-> Thrown("assert")]
    ELSE [w |-> FA_decSize(FA_shiftBackward(w, n, 0), n),
          ret |-> Returned(FA_data(w, n)[0])]

\* removeAt( index )
FA_removeAt(w, n, index, b) ==
    IF b = "debug" /\ ~(w.objs[n].size > 0)
    THEN [w |-> w, ret |-> Thrown("assert")]
    ELSE IF index >= w.objs[n].size
    THEN [w |-> w, ret |-> Thrown("runtime_error")]
    ELSE [w |-> FA_decSize(FA_shiftBackward(w, n, index), n),
          ret |-> Returned(FA_data(w, n)[index])]

\* what a caller reads: array[0], ..., array[size() - 1]
FA_contents(w, n) ==
    [i \in 1 .. w.objs[n].size |-> FA_data(w, n)[i - 1]]

(***************************************************************************)
(* The values the operations on arr are called with.  Pushes continue a    *)
(* cyclic run 0, 1, .., NumVals-1, 0, .. at either end, so that a value    *)
(* says where it belongs.  insertAt/removeAt are called at the ends, next  *)
(* to them and in the middle; insertAt puts the odd value NumVals there    *)
(* (or continues the run at an end).  An insertAt/removeAt that broke the  *)
(* run is followed by the removeAt/insertAt at the same index that mends   *)
(* it: mend says which.                                                    *)
(***************************************************************************)
BackVal(s) ==
    IF Len(s) = 0 THEN 0 ELSE (s[Len(s)] + 1) % NumVals

FrontVal(s) ==
    IF Len(s) = 0 THEN 0 ELSE (s[1] + NumVals - 1) % NumVals

InsertIdx(n) ==
    {0, 1, n \div 2, n - 1, n} \cap (0 .. n)

RemoveIdx(n) ==
    {0, 1, n \div 2, n - 2, n - 1} \cap (0 .. n - 1)

NoMend == [kind |-> "none", index |-> 0, value |-> 0]

\* the (index, value) pairs insertAt is called with
InsertArgs ==
    IF mend.kind = "insert"
    THEN {<<mend.index, mend.value>>}
    ELSE IF mend.kind = "none"
    THEN {<<i, NumVals>> : i \in InsertIdx(arr.size)}
             \cup {<<arr.size, BackVal(ref)>>, <<0, FrontVal(ref)>>}
    ELSE {}

\* the indices removeAt is called with
RemoveArgs ==
    IF mend.kind = "remove"
    THEN {mend.index}
    ELSE IF mend.kind = "none"
    THEN RemoveIdx(arr.size)
    ELSE {}

(***************************************************************************)
(* Operations on the array.                                                *)
(***************************************************************************)
notArr == <<list, set, map, used, hist, build, aborted, fixed, under, other>>

Init ==
    /\ arr = DA_new
    /\ ref = <<>>
    /\ ret = NoRet
    /\ refRet = NoRet
    /\ op = "new"
    /\ pushOnly = TRUE
    /\ mend = NoMend
    /\ list = L_new
    /\ set = S_new(0)
    /\ map = M_new(MAP_MIN_BINS)
    /\ used = {}
    /\ hist = "adding"
    /\ build = "release"
    /\ aborted = FALSE
    /\ other = NoOther
    /\ fixed = NoFixed
    /\ under = "any"

Push ==
    /\ arr.size < MaxSize
    /\ mend.kind = "none"
    /\ LET v == BackVal(ref) IN
        /\ arr' = DA_push(arr, v)
        /\ ref' = Append(ref, v)
    /\ ret' = NoRet
    /\ refRet' = NoRet
    /\ op' = "push"
    /\ UNCHANGED <<pushOnly, mend>>
    /\ UNCHANGED notArr

PushFront ==
    /\ arr.size < MaxSize
    /\ mend.kind = "none"
    /\ LET v == FrontVal(ref) IN
        /\ arr' = DA_pushFront(arr, v)
        /\ ref' = <<v>> \o ref
    /\ ret' = NoRet
    /\ refRet' = NoRet
    /\ op' = "pushFront"
    /\ pushOnly' = FALSE
    /\ UNCHANGED mend
    /\ UNCHANGED notArr

InsertAt ==
    /\ arr.size < MaxSize
    /\ \E a \in InsertArgs :
        /\ arr' = DA_insertAt(arr, a[1], a[2])
        /\ ref' = SeqInsert(ref, a[1], a[2])
        /\ mend' = IF mend.kind = "none" /\ a[2] = NumVals
                   THEN [kind |-> "remove", index |-> a[1], value |-> 0]
                   ELSE NoMend
    /\ ret' = NoRet
    /\ refRet' = NoRet
    /\ op' = "insertAt"
    /\ pushOnly' = FALSE
    /\ UNCHANGED notArr

Pop ==
    /\ arr.size > 0
    /\ mend.kind = "none"
    /\ LET r == DA_pop(arr) IN
        /\ arr' = r.arr
        /\ ret' = r.ret
    /\ ref' = SubSeq(ref, 1, Len(ref) - 1)
    /\ refRet' = ref[Len(ref)]
    /\ op' = "pop"
    /\ pushOnly' = FALSE
    /\ UNCHANGED mend
    /\ UNCHANGED notArr

PopFront ==
    /\ arr.size > 0
    /\ arr.first < MaxFirst
    /\ mend.kind = "none"
    /\ LET r == DA_popFront(arr) IN
        /\ arr' = r.arr
        /\ ret' = r.ret
    /\ ref' = Tail(ref)
    /\ refRet' = Head(ref)
    /\ op' = "popFront"
    /\ pushOnly' = FALSE
    /\ UNCHANGED mend
    /\ UNCHANGED notArr

RemoveAt ==
    /\ arr.size > 0
    /\ \E index \in RemoveArgs :
        /\ LET r == DA_removeAt(arr, index) IN
            /\ arr' = r.arr
            /\ ret' = r.ret
        /\ ref' = SeqRemove(ref, index)
        /\ refRet' = ref[index + 1]
        /\ mend' = IF mend.kind = "none" /\ index \notin {0, arr.size - 1}
                   THEN [kind |-> "insert", index |-> index,
                         value |-> ref[index + 1]]
                   ELSE NoMend
    /\ op' = "removeAt"
    /\ pushOnly' = FALSE
    /\ UNCHANGED notArr

Next ==
    \/ Push
    \/ PushFront
    \/ InsertAt
    \/ Pop
    \/ PopFront
    \/ RemoveAt

Spec ==
    Init /\ [][Next]_vars

(***************************************************************************)
(* An array that is only pushed to, through three grow steps.              *)
(***************************************************************************)
PushOnly ==
    /\ arr.size < MaxPushes
    /\ pushOnly
    /\ LET v == BackVal(ref) IN
        /\ arr' = DA_push(arr, v)
        /\ ref' = Append(ref, v)
    /\ ret' = NoRet
    /\ refRet' = NoRet
    /\ op' = "push"
    /\ UNCHANGED <<pushOnly, mend>>
    /\ UNCHANGED notArr

NextPush ==
    PushOnly

SpecPush ==
    Init /\ [][NextPush]_vars

(***************************************************************************)
(* Short arrays, of at most MaxSmall elements, with the operations that    *)
(* are called on an array of any contents.  The array is built by push,    *)
(* pushFront, pop and popFront, so that its first element is anywhere in   *)
(* the buffer and its contents wrap around the end; the program runs in a  *)
(* build with or without asserts.                                          *)
(***************************************************************************)
InitOps ==
    /\ arr = DA_new
    /\ ref = <<>>
    /\ ret = NoRet
    /\ refRet = NoRet
    /\ op = "new"
    /\ pushOnly = TRUE
    /\ mend = NoMend
    /\ list = L_new
    /\ set = S_new(0)
    /\ map = M_new(MAP_MIN_BINS)
    /\ used = {}
    /\ hist = "adding"
    /\ build \in {"debug", "release"}
    /\ aborted = FALSE
    /\ other = NoOther
    /\ fixed = NoFixed
    /\ under = "any"

SmallPush ==
    /\ ~aborted
    /\ arr.size < MaxSmall
    /\ Push

SmallPushFront ==
    /\ ~aborted
    /\ arr.size < MaxSmall
    /\ PushFront

SmallPop ==
    /\ ~aborted
    /\ Pop

SmallPopFront ==
    /\ ~aborted
    /\ PopFront

\* the sequence without the first occurrence of v
SeqRemoveFirst(seq, v) ==
    IF \E i \in DOMAIN seq : seq[i] = v
    THEN SeqRemove(seq, CHOOSE i \in 0 .. Len(seq) - 1 :
                            seq[i + 1] = v /\ \A j \in 1 .. i : seq[j] # v)
    ELSE seq

\* remove( v ), v one of the values pushed or the value NumVals, which is
\* never pushed
Remove ==
    /\ ~aborted
    /\ \E v \in 0 .. NumVals :
        LET r == DA_remove(arr, v, build) IN
            /\ arr' = r.arr
            /\ ret' = r.ret
            /\ aborted' = (r.ret = "assert")
            /\ ref' = SeqRemoveFirst(ref, v)
            /\ refRet' = IF \E i \in DOMAIN ref : ref[i] = v THEN "true"
                          ELSE "false"
    /\ op' = "remove"
    /\ pushOnly' = FALSE
    /\ UNCHANGED <<mend, list, set, map, used, hist, build, fixed, under,
                   other>>

NextOps ==
    \/ SmallPush
    \/ SmallPushFront
    \/ SmallPop
    \/ SmallPopFront
    \/ Remove

SpecArrayOps ==
    InitOps /\ [][NextOps]_vars

(***************************************************************************)
(* Operations on the list.                                                 *)
(***************************************************************************)
notList == <<arr, pushOnly, mend, set, map, used, hist, build, aborted, fixed,
            under, other>>

ListValues == 1 .. NumListVals

ListPush ==
    /\ list.count < MaxCount
    /\ \E v \in ListValues :
        /\ list' = L_push(list, v)
        /\ ref' = Append(ref, v)
    /\ ret' = NoRet
    /\ refRet' = NoRet
    /\ op' = "push"
    /\ UNCHANGED notList

ListPushFront ==
    /\ list.count < MaxCount
    /\ \E v \in ListValues :
        /\ list' = L_pushFront(list, v)
        /\ ref' = <<v>> \o ref
    /\ ret' = NoRet
    /\ refRet' = NoRet
    /\ op' = "pushFront"
    /\ UNCHANGED notList

ListInsertAt ==
    /\ list.count < MaxCount
    /\ \E index \in 0 .. list.count, v \in ListValues :
        /\ list' = L_insertAt(list, index, v)
        /\ ref' = SeqInsert(ref, index, v)
    /\ ret' = NoRet
    /\ refRet' = NoRet
    /\ op' = "insertAt"
    /\ UNCHANGED notList

ListPop ==
    /\ list.count > 0
    /\ LET r == L_pop(list) IN
        /\ list' = r.list
        /\ ret' = r.ret
    /\ ref' = SubSeq(ref, 1, Len(ref) - 1)
    /\ refRet' = ref[Len(ref)]
    /\ op' = "pop"
    /\ UNCHANGED notList

ListPopFront ==
    /\ list.count > 0
    /\ LET r == L_popFront(list) IN
        /\ list' = r.list
        /\ ret' = r.ret
    /\ ref' = Tail(ref)
    /\ refRet' = Head(ref)
    /\ op' = "popFront"
    /\ UNCHANGED notList

ListRemoveAt ==
    /\ list.count > 0
    /\ \E index \in 0 .. list.count - 1 :
        /\ LET r == L_removeAt(list, index) IN
            /\ list' = r.list
            /\ ret' = r.ret
        /\ ref' = SeqRemove(ref, index)
        /\ refRet' = ref[index + 1]
    /\ op' = "removeAt"
    /\ UNCHANGED notList

NextList ==
    \/ ListPush
    \/ ListPushFront
    \/ ListInsertAt
    \/ ListPop
    \/ ListPopFront
    \/ ListRemoveAt

SpecList ==
    Init /\ [][NextList]_vars

(***************************************************************************)
(* The list with its queries indexOf and has.  refRet is what the          *)
(* reference sequence gives: the index of the first occurrence or -1, and  *)
(* whether the value occurs.                                               *)
(***************************************************************************)
\* the least index (from 0) at which v occurs in seq, -1 if it does not
FirstIndexOf(seq, v) ==
    IF \E i \in DOMAIN seq : seq[i] = v
    THEN (CHOOSE i \in DOMAIN seq :
              seq[i] = v /\ \A j \in 1 .. i - 1 : seq[j] # v) - 1
    ELSE -1

ListIndexOf ==
    /\ \E v \in ListValues :
        /\ ret' = L_indexOf(list, v)
        /\ refRet' = FirstIndexOf(ref, v)
    /\ op' = "indexOf"
    /\ UNCHANGED <<list, ref>>
    /\ UNCHANGED notList

ListHas ==
    /\ \E v \in ListValues :
        /\ ret' = L_has(list, v)
        /\ refRet' = (FirstIndexOf(ref, v) # -1)
    /\ op' = "has"
    /\ UNCHANGED <<list, ref>>
    /\ UNCHANGED notList

NextListQuery ==
    \/ NextList
    \/ ListIndexOf
    \/ ListHas

SpecListQuery ==
    Init /\ [][NextListQuery]_vars

(***************************************************************************)
(* Operations on the set.  ref is the set of the keys added and not        *)
(* removed since.                                                          *)
(***************************************************************************)
notSet == <<arr, pushOnly, mend, list, map, build, aborted, fixed, under,
           other>>

\* a set made by Set( hashFunc ), by Set( 2 * MIN_BINS, hashFunc ) or by
\* Set( 4 * MIN_BINS, hashFuncWide )
InitSet ==
    /\ arr = DA_new
    /\ ref = {}
    /\ ret = NoRet
    /\ refRet = NoRet
    /\ op = "new"
    /\ pushOnly = TRUE
    /\ mend = NoMend
    /\ list = L_new
    /\ set \in {S_new(0), S_new(2 * MIN_BINS), S_newWide(4 * MIN_BINS)}
    /\ map = M_new(MAP_MIN_BINS)
    /\ used = {}
    /\ hist = "adding"
    /\ build = "release"
    /\ aborted = FALSE
    /\ other = NoOther
    /\ fixed = NoFixed
    /\ under = "any"

SetAdd ==
    /\ set.values.size < MaxElems
    /\ \E k \in Keys :
        /\ set' = S_add(set, k)
        /\ ref' = ref \cup {k}
        /\ used' = used \cup {k}
        /\ hist' = IF hist = "adding" /\ k \notin ref THEN "adding"
                   ELSE "other"
    /\ op' = "add"
    /\ UNCHANGED <<ret, refRet>>
    /\ UNCHANGED notSet

SetRemove ==
    /\ \E k \in Keys :
        /\ set' = S_remove(set, k)
        /\ ref' = ref \ {k}
        /\ used' = used \cup {k}
        /\ hist' = IF hist \in {"adding", "removing"} /\ k \in ref
                   THEN "removing"
                   ELSE "other"
    /\ op' = "remove"
    /\ UNCHANGED <<ret, refRet>>
    /\ UNCHANGED notSet

NextSet ==
    \/ SetAdd
    \/ SetRemove

SpecSet ==
    InitSet /\ [][NextSet]_vars

(***************************************************************************)
(* Operations on the map.  ref is the function from the keys assigned and  *)
(* not removed since to the value last assigned to each.                   *)
(***************************************************************************)
notMap == <<arr, pushOnly, mend, list, set, build, fixed, under, other>>

MapValues == 1 .. NumMapVals

\* 1 and 33 share a bin of 32 with different hashes; 1 and 65 share a hash
MapKeys == {1, 33, 65}

\* a map made by Map( hashFunc ) or by Map( 2 * MAP_MIN_BINS, hashFunc ), in
\* a build with or without asserts
InitMap ==
    /\ arr = DA_new
    /\ ref = <<>>
    /\ ret = NoRet
    /\ refRet = NoRet
    /\ op = "new"
    /\ pushOnly = TRUE
    /\ mend = NoMend
    /\ list = L_new
    /\ set = S_new(0)
    /\ map \in {M_new(MAP_MIN_BINS), M_new(2 * MAP_MIN_BINS)}
    /\ used = {}
    /\ hist = "adding"
    /\ build \in {"debug", "release"}
    /\ aborted = FALSE
    /\ other = NoOther
    /\ fixed = NoFixed
    /\ under = "any"

MapAssign ==
    /\ ~aborted
    /\ map.pairs.size < MaxPairs
    /\ \E k \in MapKeys, v \in MapValues :
        LET r == M_assign(map, k, v) IN
            /\ \/ /\ r.asserted /\ build = "debug"
                  /\ aborted' = TRUE
                  /\ UNCHANGED map
               \/ /\ ~(r.asserted /\ build = "debug")
                  /\ map' = r.map
                  /\ UNCHANGED aborted
            /\ ref' = (k :> v) @@ ref
            /\ used' = used \cup {k}
            /\ hist' = IF hist = "adding" THEN "adding" ELSE "other"
    /\ op' = "assign"
    /\ UNCHANGED <<ret, refRet>>
    /\ UNCHANGED notMap

MapRemove ==
    /\ ~aborted
    /\ \E k \in MapKeys :
        /\ map' = M_remove(map, k)
        /\ ref' = [x \in DOMAIN ref \ {k} |-> ref[x]]
        /\ used' = used \cup {k}
        /\ hist' = IF hist \in {"adding", "removing"} /\ k \in DOMAIN ref
                   THEN "removing"
                   ELSE "other"
    /\ op' = "remove"
    /\ UNCHANGED <<ret, refRet, aborted>>
    /\ UNCHANGED notMap

NextMap ==
    \/ MapAssign
    \/ MapRemove

SpecMap ==
    InitMap /\ [][NextMap]_vars

(***************************************************************************)
(* Operations on a FixedArray: the array a, constructed with FixedCap      *)
(* slots, with the operations called as their preconditions allow: an      *)
(* insertion while the array is not full, a removal while it is not empty, *)
(* at an index in range.                                                   *)
(***************************************************************************)
notFixed == <<arr, pushOnly, mend, list, set, map, used, hist, build, aborted,
             under, other>>

FixedValues == 0 .. NumFixedVals - 1

FixedSize == fixed.objs["a"].size

InitFixed ==
    /\ arr = DA_new
    /\ ref = <<>>
    /\ ret = NoRet
    /\ refRet = NoRet
    /\ op = "new"
    /\ pushOnly = TRUE
    /\ mend = NoMend
    /\ list = L_new
    /\ set = S_new(0)
    /\ map = M_new(MAP_MIN_BINS)
    /\ used = {}
    /\ hist = "adding"
    /\ build \in {"debug", "release"}
    /\ aborted = FALSE
    /\ other = NoOther
    /\ fixed \in {FA_new(NoFixed, "a", FixedCap, f) : f \in FreshData(FixedCap)}
    /\ under = "FixedArray"

FixedPush ==
    /\ FixedSize < fixed.objs["a"].capacity
    /\ \E v \in FixedValues :
        /\ LET r == FA_push(fixed, "a", v, build) IN
            /\ fixed' = r.w
            /\ ret' = r.ret
        /\ ref' = Append(ref, v)
    /\ refRet' = Returned(NoRet)
    /\ op' = "push"
    /\ UNCHANGED notFixed

FixedPushFront ==
    /\ FixedSize < fixed.objs["a"].capacity
    /\ \E v \in FixedValues :
        /\ LET r == FA_pushFront(fixed, "a", v, build) IN
            /\ fixed' = r.w
            /\ ret' = r.ret
        /\ ref' = <<v>> \o ref
    /\ refRet' = Returned(NoRet)
    /\ op' = "pushFront"
    /\ UNCHANGED notFixed

FixedInsertAt ==
    /\ FixedSize < fixed.objs["a"].capacity
    /\ \E index \in 0 .. FixedSize, v \in FixedValues,
          overload \in {"copy", "move"} :
        /\ LET r == FA_insertAt(fixed, "a", index, v, build, overload) IN
            /\ fixed' = r.w
            /\ ret' = r.ret
        /\ ref' = SeqInsert(ref, index, v)
    /\ refRet' = Returned(NoRet)
    /\ op' = "insertAt"
    /\ UNCHANGED notFixed

FixedPop ==
    /\ FixedSize > 0
    /\ LET r == FA_pop(fixed, "a", build) IN
        /\ fixed' = r.w
        /\ ret' = r.ret
    /\ ref' = SubSeq(ref, 1, Len(ref) - 1)
    /\ refRet' = Returned(ref[Len(ref)])
    /\ op' = "pop"
    /\ UNCHANGED notFixed

FixedPopFront ==
    /\ FixedSize > 0
    /\ LET r == FA_popFront(fixed, "a", build) IN
        /\ fixed' = r.w
        /\ ret' = r.ret
    /\ ref' = Tail(ref)
    /\ refRet' = Returned(Head(ref))
    /\ op' = "popFront"
    /\ UNCHANGED notFixed

FixedRemoveAt ==
    /\ FixedSize > 0
    /\ \E index \in 0 .. FixedSize - 1 :
        /\ LET r == FA_removeAt(fixed, "a", index, build) IN
            /\ fixed' = r.w
            /\ ret' = r.ret
        /\ ref' = SeqRemove(ref, index)
        /\ refRet' = Returned(ref[index + 1])
    /\ op' = "removeAt"
    /\ UNCHANGED notFixed

NextFixed ==
    \/ FixedPush
    \/ FixedPushFront
    \/ FixedInsertAt
    \/ FixedPop
    \/ FixedPopFront
    \/ FixedRemoveAt

SpecFixed ==
    InitFixed /\ [][NextFixed]_vars

(***************************************************************************)
(* at( index ) on the three sequence containers.  A behaviour exercises    *)
(* one container (under): it builds it with the operations above and       *)
(* calls at with the indices 0 .. size() + 1.  refRet is what the          *)
(* reference sequence gives: its element at the index, or the error.       *)
(***************************************************************************)
RefAt(seq, index) ==
    IF index >= Len(seq) THEN Thrown("runtime_error")
    ELSE Returned(seq[index + 1])

InitAt ==
    /\ arr = DA_new
    /\ ref = <<>>
    /\ ret = NoRet
    /\ refRet = NoRet
    /\ op = "new"
    /\ pushOnly = TRUE
    /\ mend = NoMend
    /\ list = L_new
    /\ set = S_new(0)
    /\ map = M_new(MAP_MIN_BINS)
    /\ used = {}
    /\ hist = "adding"
    /\ build = "release"
    /\ aborted = FALSE
    /\ other = NoOther
    /\ under \in {"DynamicArray", "FixedArray", "List"}
    /\ IF under = "FixedArray"
       THEN fixed \in {FA_new(NoFixed, "a", FixedCap, f) :
                           f \in FreshData(FixedCap)}
       ELSE fixed = NoFixed

ArrayAt ==
    /\ under = "DynamicArray"
    /\ \E index \in 0 .. arr.size + 1 :
        /\ ret' = DA_at(arr, index)
        /\ refRet' = RefAt(ref, index)
    /\ op' = "at"
    /\ UNCHANGED <<arr, ref, pushOnly, mend>>
    /\ UNCHANGED notArr

ListAt ==
    /\ under = "List"
    /\ \E index \in 0 .. list.count + 1 :
        /\ ret' = L_at(list, index)
        /\ refRet' = RefAt(ref, index)
    /\ op' = "at"
    /\ UNCHANGED <<list, ref>>
    /\ UNCHANGED notList

FixedAt ==
    /\ under = "FixedArray"
    /\ \E index \in 0 .. FixedSize + 1 :
        /\ ret' = FA_at(fixed, "a", index)
        /\ refRet' = RefAt(ref, index)
    /\ op' = "at"
    /\ UNCHANGED <<fixed, ref>>
    /\ UNCHANGED notFixed

\* the container under test is c and the test is still filling it: no
\* assert has failed, and it has neither called insertAt beyond the end nor
\* copied or moved the container
Building(c) ==
    under = c /\ ~aborted /\ op # "insertAtBeyond" /\ other = NoOther

ArrayBuildPush == Building("DynamicArray") /\ SmallPush
ArrayBuildPushFront == Building("DynamicArray") /\ SmallPushFront
ArrayBuildPop == Building("DynamicArray") /\ SmallPop
ArrayBuildPopFront == Building("DynamicArray") /\ SmallPopFront
ListBuildPush == Building("List") /\ ListPush
ListBuildPushFront == Building("List") /\ ListPushFront
ListBuildInsertAt == Building("List") /\ ListInsertAt
ListBuildPop == Building("List") /\ ListPop
ListBuildPopFront == Building("List") /\ ListPopFront
ListBuildRemoveAt == Building("List") /\ ListRemoveAt
FixedBuildPush == Building("FixedArray") /\ FixedPush
FixedBuildPushFront == Building("FixedArray") /\ FixedPushFront
FixedBuildInsertAt == Building("FixedArray") /\ FixedInsertAt
FixedBuildPop == Building("FixedArray") /\ FixedPop
FixedBuildPopFront == Building("FixedArray") /\ FixedPopFront
FixedBuildRemoveAt == Building("FixedArray") /\ FixedRemoveAt

\* the operations that build the container under test
NextBuild ==
    \/ ArrayBuildPush
    \/ ArrayBuildPushFront
    \/ ArrayBuildPop
    \/ ArrayBuildPopFront
    \/ ListBuildPush
    \/ ListBuildPushFront
    \/ ListBuildInsertAt
    \/ ListBuildPop
    \/ ListBuildPopFront
    \/ ListBuildRemoveAt
    \/ FixedBuildPush
    \/ FixedBuildPushFront
    \/ FixedBuildInsertAt
    \/ FixedBuildPop
    \/ FixedBuildPopFront
    \/ FixedBuildRemoveAt

NextAt ==
    \/ NextBuild
    \/ ArrayAt
    \/ ListAt
    \/ FixedAt

SpecAt ==
    InitAt /\ [][NextAt]_vars

(***************************************************************************)
(* Properties of DynamicArray, checked under Spec (C2: under SpecPush).    *)
(***************************************************************************)
\* C2: an array that was only ever pushed to, from the empty array of
\* capacity 32, has size() equal to the number N of pushes and reads
\* array[i] = v_i for every i < N, however often it grew (v_i is the
\* cyclic run i % NumVals).
C2_IndexTransparentUnderGrowth ==
    pushOnly =>
        /\ arr.size = Len(ref)
        /\ \A i \in 0 .. arr.size - 1 :
              DA_get(arr, i) = ref[i + 1] /\ DA_get(arr, i) = i % NumVals

\* the 129th push has grown the buffer a third time, to 256 slots
C2_Witness ==
    /\ pushOnly
    /\ op = "push"
    /\ arr.size = 4 * MIN_CAPACITY + 1
    /\ arr.capacity = 8 * MIN_CAPACITY

\* C3: after each push, pushFront, pop or popFront the contents
\* array[0 .. size) are those of the reference deque given the same
\* operations, and pop/popFront returned what the deque returned (its last
\* or its first element).
C3_MatchesDeque ==
    op \in {"push", "pushFront", "pop", "popFront"} =>
        /\ arr.size = Len(ref)
        /\ DA_contents(arr) = ref
        /\ ret = refRet

\* a popFront on a grown buffer whose contents wrap around its end
C3_Witness ==
    /\ op = "popFront"
    /\ ret # NoRet
    /\ arr.capacity = 2 * MIN_CAPACITY
    /\ arr.first + arr.size > arr.capacity

\* C4: after insertAt( i, v ) the array reads as the reference sequence with
\* v inserted before its i-th element, and after removeAt( i ) as the
\* reference sequence with its i-th element deleted, removeAt having
\* returned that element.
C4_InsertRemoveLikeSequence ==
    op \in {"insertAt", "removeAt"} =>
        /\ arr.size = Len(ref)
        /\ DA_contents(arr) = ref
        /\ ret = refRet
        /\ (op = "insertAt" /\ mend.kind = "remove"
               => DA_get(arr, mend.index) = NumVals)

\* an insertAt in the middle of an array whose first element is not at
\* slot 0 and whose contents wrap around the end of the buffer
C4_Witness ==
    /\ op = "insertAt"
    /\ mend.kind = "remove"
    /\ 1 < mend.index /\ mend.index < arr.size - 2
    /\ arr.first # 0
    /\ arr.first + arr.size > arr.capacity

(***************************************************************************)
(* Properties of List, checked under SpecList.                             *)
(***************************************************************************)
\* the slots seen in n steps along next from slot start, stopping at a link
\* that is not a slot
RECURSIVE RingSlots(_, _, _)
RingSlots(l, start, n) ==
    IF n = 0 \/ start \notin DOMAIN l.nodes
    THEN {}
    ELSE {start} \cup RingSlots(l, l.nodes[start].next, n - 1)

LiveSlots == RingSlots(list, list.first, list.count)

FreeSlots == RingSlots(list, list.firstFree, list.freeCount)

\* next and prev of the slots in ring are slots of ring and undo each other
LinksConsistent(ring) ==
    \A j \in ring :
        /\ list.nodes[j].next \in ring
        /\ list.nodes[j].prev \in ring
        /\ list.nodes[list.nodes[j].next].prev = j
        /\ list.nodes[list.nodes[j].prev].next = j

\* C5: size() is the number of live elements, and walking the live ring
\* from the first node visits exactly size() distinct slots.
C5_SizeIsLiveSlots ==
    /\ list.count = Len(ref)
    /\ Cardinality(LiveSlots) = list.count

\* C6: every allocated slot is in exactly one of the live and the free
\* ring, the live ring has _count nodes, the free ring _freeCount nodes, and
\* next and prev are mutually consistent within each ring.
C6_RingInvariant ==
    /\ LiveSlots \cap FreeSlots = {}
    /\ LiveSlots \cup FreeSlots = 0 .. list.count + list.freeCount - 1
    /\ Cardinality(LiveSlots) = list.count
    /\ Cardinality(FreeSlots) = list.freeCount
    /\ LinksConsistent(LiveSlots)
    /\ LinksConsistent(FreeSlots)

\* C7: list[i] is the i-th element of the reference sequence given the same
\* operations, for every i < size(), and pop/popFront/removeAt returned the
\* element the reference sequence had at the removed position.
C7_MatchesSequence ==
    /\ list.count = Len(ref)
    /\ L_contents(list) = ref
    /\ ret = refRet

(***************************************************************************)
(* Properties of Set, checked under SpecSet.                               *)
(***************************************************************************)
\* no element occurs twice in the sequence
NoDuplicates(seq) ==
    \A i, j \in DOMAIN seq : seq[i] = seq[j] => i = j

\* C1: distinct keys with distinct hash codes are added, then removed in
\* any order; after each call has() is true exactly for the keys added and
\* not removed, and size() is their number (0 after the last removal).
C1_RemovalKeepsLookups ==
    hist \in {"adding", "removing"} /\ used \subseteq PlainKeys =>
        /\ \A k \in PlainKeys : S_has(set, k) <=> k \in ref
        /\ S_size(set) = Cardinality(ref)

\* C9: after any adds and removes of keys with distinct hash codes, size()
\* is the number of values contained and the backing array holds no value
\* twice.
C9_AddIsInsertIfAbsent ==
    used \subseteq PlainKeys =>
        /\ S_size(set) = Cardinality(ref)
        /\ NoDuplicates(S_contents(set))

\* C10: while keys are only added, has( k ) is true exactly for the keys
\* that were added, also for a k whose hash code is that of another key.
C10_HasIsExact ==
    hist = "adding" =>
        \A k \in Keys : S_has(set, k) <=> k \in ref

(***************************************************************************)
(* Properties of Map, checked under SpecMap.                               *)
(***************************************************************************)
\* C8: while keys with distinct hash codes are only assigned, no assert
\* fails, size() is the number of keys assigned, every one of them is found
\* by hasKey and the pairs of the map are those keys, each with the value
\* last assigned to it.
C8_AssignIsInsertOrUpdate ==
    hist = "adding" /\ used \subseteq PlainKeys =>
        /\ ~aborted
        /\ M_size(map) = Cardinality(DOMAIN ref)
        /\ \A k \in DOMAIN ref : M_hasKey(map, k)
        /\ {M_contents(map)[i] : i \in 1 .. M_size(map)}
               = {[key |-> k, value |-> ref[k]] : k \in DOMAIN ref}

\* C11: a remove( k ) called when has( k ) is false leaves size(), the
\* stored values and their order, and the result of has( x ) for every x as
\* they were, whether or not the call shrinks the bin array.
C11_RemoveAbsentIsNoOp ==
    [][\A k \in Keys :
          (op' = "remove" /\ set' = S_remove(set, k) /\ ~S_has(set, k)) =>
              /\ S_size(set') = S_size(set)
              /\ S_contents(set') = S_contents(set)
              /\ \A x \in Keys : S_has(set', x) <=> S_has(set, x)]_vars

\* C12: on a list that reads as the reference sequence, indexOf( v ) gives
\* the index of the first occurrence of v or (uint32)-1 if there is none,
\* and has( v ) is true exactly when v occurs.
C12_IndexOfAndHas ==
    op \in {"indexOf", "has"} /\ L_contents(list) = ref => ret = refRet

\* C13: remove( v ) returns true and takes the first occurrence of v out of
\* the array when v occurs in it; when v does not occur it returns false
\* (no error is raised) and leaves the array as it was.
C13_RemoveFirstOccurrence ==
    op = "remove" =>
        /\ ret = refRet
        /\ arr.size = Len(ref)
        /\ DA_contents(arr) = ref

(***************************************************************************)
(* Properties of at, checked under SpecAt.                                 *)
(***************************************************************************)
\* C14: on a DynamicArray, a FixedArray and a List, at( i ) returns the
\* element at logical index i (that of the reference sequence) when
\* i < size() and throws the out-of-range std::runtime_error when
\* i >= size(), and after the call the container has the size and, for the
\* arrays, the contents and the capacity it had.
C14_AtIsChecked ==
    op = "at" =>
        /\ ret = refRet
        /\ under = "DynamicArray" =>
              arr.size = Len(ref) /\ DA_contents(arr) = ref
        /\ under = "FixedArray" =>
              /\ FixedSize = Len(ref)
              /\ FA_contents(fixed, "a") = ref
              /\ fixed.objs["a"].capacity = FixedCap
        /\ under = "List" => list.count = Len(ref)

InitInsertAt ==
    /\ arr = DA_new
    /\ ref = <<>>
    /\ ret = NoRet
    /\ refRet = NoRet
    /\ op = "new"
    /\ pushOnly = TRUE
    /\ mend = NoMend
    /\ list = L_new
    /\ set = S_new(0)
    /\ map = M_new(MAP_MIN_BINS)
    /\ used = {}
    /\ hist = "adding"
    /\ build \in {"debug", "release"}
    /\ aborted = FALSE
    /\ other = NoOther
    /\ under \in {"DynamicArray", "FixedArray", "List"}
    /\ IF under = "FixedArray"
       THEN fixed \in {FA_new(NoFixed, "a", FixedCap, f) :
                           f \in FreshData(FixedCap)}
       ELSE fixed = NoFixed

LiveRingWellFormed ==
    /\ Cardinality(LiveSlots) = list.count
    /\ LinksConsistent(LiveSlots)

ArrayInsertAtBeyond ==
    /\ Building("DynamicArray")
    /\ \E index \in arr.size + 1 .. arr.size + 2 :
        LET r == DA_insertAtOrThrow(arr, index, NumVals) IN
            /\ arr' = r.arr
            /\ ret' = r.ret
            /\ aborted' = (r.ret.thrown = "assert")
    /\ refRet' = Thrown("runtime_error")
    /\ op' = "insertAtBeyond"
    /\ UNCHANGED <<ref, pushOnly, mend, list, set, map, used, hist, build,
                   fixed, under, other>>

ListInsertAtBeyond ==
    /\ Building("List")
    /\ list.count < MaxCount
    /\ LiveRingWellFormed
    /\ \E index \in list.count + 1 .. list.count + 2, v \in ListValues :
        LET r == L_insertAtAsserted(list, index, v, build) IN
            /\ list' = r.list
            /\ ret' = r.ret
            /\ aborted' = (r.ret.thrown = "assert")
    /\ refRet' = Thrown("runtime_error")
    /\ op' = "insertAtBeyond"
    /\ UNCHANGED <<ref, arr, pushOnly, mend, set, map, used, hist, build,
                   fixed, under, other>>

FixedInsertAtBeyond ==
    /\ Building("FixedArray")
    /\ FixedSize < fixed.objs["a"].capacity
    /\ \E index \in FixedSize + 1 .. FixedSize + 2, v \in FixedValues,
          overload \in {"copy", "move"} :
        LET r == FA_insertAt(fixed, "a", index, v, build, overload) IN
            /\ fixed' = r.w
            /\ ret' = r.ret
            /\ aborted' = (r.ret.thrown = "assert")
    /\ refRet' = Thrown("runtime_error")
    /\ op' = "insertAtBeyond"
    /\ UNCHANGED <<ref, arr, pushOnly, mend, list, set, map, used, hist,
                   build, under, other>>

NextInsertAt ==
    \/ NextBuild
    \/ ArrayInsertAtBeyond
    \/ ListInsertAtBeyond
    \/ FixedInsertAtBeyond

SpecInsertAt ==
    InitInsertAt /\ [][NextInsertAt]_vars

\* C15: on a DynamicArray, a FixedArray (either overload) and a List,
\* insertAt( i, v ) with i > size() throws the std::runtime_error for an
\* index out of range and leaves the container as it was: the size and,
\* for the arrays, the contents of the reference sequence, and the
\* capacity.
C15_InsertAtIsChecked ==
    op = "insertAtBeyond" =>
        /\ ret = refRet
        /\ under = "DynamicArray" =>
              /\ arr.size = Len(ref)
              /\ DA_contents(arr) = ref
              /\ arr.capacity = MIN_CAPACITY
        /\ under = "FixedArray" =>
              /\ FixedSize = Len(ref)
              /\ FA_contents(fixed, "a") = ref
              /\ fixed.objs["a"].capacity = FixedCap
        /\ under = "List" =>
              /\ list.count = Len(ref)
              /\ list.capacity = LIST_MIN_CAPACITY

(***************************************************************************)
(* Copies of a DynamicArray.  The array is built as in SpecArrayOps, then  *)
(* copied by the copy constructor or the copy assignment; after that one   *)
(* value is pushed to the array or to the copy.  other holds the copy and  *)
(* the reference sequence of the copy.  Where a call writes past the end   *)
(* of a buffer, the program either ends there or goes on with the slots    *)
(* of the buffer as they are.                                              *)
(***************************************************************************)
InitCopy ==
    /\ arr = DA_new
    /\ ref = <<>>
    /\ ret = NoRet
    /\ refRet = NoRet
    /\ op = "new"
    /\ pushOnly = TRUE
    /\ mend = NoMend
    /\ list = L_new
    /\ set = S_new(0)
    /\ map = M_new(MAP_MIN_BINS)
    /\ used = {}
    /\ hist = "adding"
    /\ build = "release"
    /\ aborted = FALSE
    /\ other = NoOther
    /\ fixed = NoFixed
    /\ under = "DynamicArray"

\* what a call that wrote past the end of a buffer may have done
Overrun(overruns) ==
    IF overruns THEN {"crash", "overrun"} ELSE {"none"}

ArrayCopy ==
    /\ Building("DynamicArray")
    /\ \E made \in {"copy constructor", "copy assignment"},
          fresh \in DA_Fresh(arr.capacity),
          outcome \in Overrun(DA_copyOverruns(arr)) :
        LET r == IF made = "copy constructor"
                 THEN DA_copyConstruct(arr, fresh)
                 ELSE DA_copyAssign(arr, fresh)
        IN  /\ arr' = r.source
            /\ other' = [made |-> made, array |-> r.copy, ref |-> ref]
            /\ aborted' = (outcome = "crash")
            /\ ret' = IF outcome = "none" THEN Returned(NoRet)
                      ELSE Thrown(outcome)
    /\ refRet' = Returned(NoRet)
    /\ op' = "copy"
    /\ UNCHANGED <<ref, pushOnly, mend, list, set, map, used, hist, build,
                   fixed, under>>

\* a push to the array that was copied
ArrayPushToSource ==
    /\ op = "copy"
    /\ ~aborted
    /\ LET v == BackVal(ref) IN
        /\ arr' = DA_push(arr, v)
        /\ ref' = Append(ref, v)
    /\ ret' = Returned(NoRet)
    /\ refRet' = Returned(NoRet)
    /\ op' = "push to source"
    /\ UNCHANGED <<pushOnly, mend, list, set, map, used, hist, build,
                   aborted, fixed, under, other>>

\* a push to the copy
ArrayPushToCopy ==
    /\ op = "copy"
    /\ ~aborted
    /\ LET v == BackVal(other.ref) IN
        other' = [other EXCEPT !.array = DA_push(@, v),
                               !.ref = Append(@, v)]
    /\ ret' = Returned(NoRet)
    /\ refRet' = Returned(NoRet)
    /\ op' = "push to copy"
    /\ UNCHANGED <<arr, ref, pushOnly, mend, list, set, map, used, hist,
                   build, aborted, fixed, under>>

NextCopy ==
    \/ ArrayBuildPush
    \/ ArrayBuildPushFront
    \/ ArrayBuildPop
    \/ ArrayBuildPopFront
    \/ ArrayCopy
    \/ ArrayPushToSource
    \/ ArrayPushToCopy

SpecCopy ==
    InitCopy /\ [][NextCopy]_vars

\* C17: once a DynamicArray was copied, by the copy constructor or the
\* copy assignment, from whatever state (contents wrapping around the end
\* of the buffer, _first advanced by popFront), the call has returned, the
\* copy has the size and the elements of the reference sequence, the array
\* copied still has them, and a push to one of the two leaves the other as
\* it is: each follows its own reference sequence.
C17_CopyIsDeep ==
    op \in {"copy", "push to source", "push to copy"} =>
        /\ ret = Returned(NoRet)
        /\ other.array.size = Len(other.ref)
        /\ DA_contents(other.array) = other.ref
        /\ arr.size = Len(ref)
        /\ DA_contents(arr) = ref

(***************************************************************************)
(* Copies of a List.  The list is built with the operations of SpecList,   *)
(* then copied by the copy constructor or the copy assignment: other       *)
(* holds the copy.                                                         *)
(***************************************************************************)
InitListCopy ==
    /\ arr = DA_new
    /\ ref = <<>>
    /\ ret = NoRet
    /\ refRet = NoRet
    /\ op = "new"
    /\ pushOnly = TRUE
    /\ mend = NoMend
    /\ list = L_new
    /\ set = S_new(0)
    /\ map = M_new(MAP_MIN_BINS)
    /\ used = {}
    /\ hist = "adding"
    /\ build = "release"
    /\ aborted = FALSE
    /\ other = NoOther
    /\ fixed = NoFixed
    /\ under = "List"

ListCopy ==
    /\ Building("List")
    /\ \E made \in {"copy constructor", "copy assignment"},
          fresh \in L_Fresh(DoubleUpTo(LIST_MIN_CAPACITY, list.count)) :
        other' = [made |-> made,
                  list |-> IF made = "copy constructor"
                           THEN L_copyConstruct(list, fresh)
                           ELSE L_copyAssign(list, fresh)]
    /\ ret' = Returned(NoRet)
    /\ refRet' = Returned(NoRet)
    /\ op' = "copy"
    /\ UNCHANGED <<arr, list, ref, pushOnly, mend, set, map, used, hist,
                   build, aborted, fixed, under>>

NextListCopy ==
    \/ ListBuildPush
    \/ ListBuildPushFront
    \/ ListBuildInsertAt
    \/ ListBuildPop
    \/ ListBuildPopFront
    \/ ListBuildRemoveAt
    \/ ListCopy

SpecListCopy ==
    InitListCopy /\ [][NextListCopy]_vars

\* node i of the first n nodes of l is linked to i + 1 and i - 1 modulo n
RingInOrder(l, n) ==
    \A i \in 0 .. n - 1 :
        /\ l.nodes[i].next = (i + 1) % n
        /\ l.nodes[i].prev = (i + n - 1) % n

\* C18: the copy of a list, by the copy constructor or the copy assignment,
\* has the size of the list, a live ring in which node i is linked to
\* i + 1 and i - 1 modulo the size, starting at node 0, an empty free ring,
\* and at every index the element the list has there, whatever the size.
C18_CopyIsWellFormed ==
    op = "copy" =>
        /\ other.list.count = list.count
        /\ other.list.first = 0
        /\ other.list.freeCount = 0
        /\ RingInOrder(other.list, list.count)
        /\ L_contents(other.list) = L_contents(list)

(***************************************************************************)
(* Views of a FixedArray.  Block 1 is an array of FixedCap values of the   *)
(* caller, and a is wrap( data, size, FixedCap ).  The two objects a and   *)
(* b are then constructed (with storage of their own, as a copy or by a    *)
(* move of the other), assigned to each other and destroyed, in any        *)
(* order.  ref is the caller's array as it                                 *)
(* was wrapped.  other records the last call: the object made or           *)
(* assigned (dst), the object it was made from (src), whether that was a   *)
(* view of the caller's array (view), its size, and the block the object   *)
(* destroyed owned (block).                                                *)
(***************************************************************************)
CallerData == 1

\* the contents of a new block, taken here to be one value in every slot
FreshFill(count) ==
    {fresh \in FreshData(count) : \A i \in 0 .. count - 1 : fresh[i] = fresh[0]}

InitWrap ==
    /\ arr = DA_new
    /\ ret = NoRet
    /\ refRet = NoRet
    /\ op = "wrap"
    /\ pushOnly = TRUE
    /\ mend = NoMend
    /\ list = L_new
    /\ set = S_new(0)
    /\ map = M_new(MAP_MIN_BINS)
    /\ used = {}
    /\ hist = "adding"
    /\ build = "release"
    /\ aborted = FALSE
    /\ under = "FixedArray"
    /\ \E data \in FreshData(FixedCap), size \in 1 .. FixedCap :
        /\ ref = [i \in 1 .. FixedCap |-> data[i - 1]]
        /\ fixed = FA_wrap([NoFixed EXCEPT
                                !.heap[CallerData] =
                                    [data |-> data, state |-> "caller"]],
                           "a", CallerData, size, FixedCap)
    /\ other = [made |-> "wrap", dst |-> "a", src |-> "a", view |-> FALSE,
                size |-> 0, block |-> nullptr]

notWrap == <<arr, ref, ret, refRet, pushOnly, mend, list, set, map, used,
            hist, build, aborted, under>>

IsView(n) ==
    fixed.objs[n].isDataExternal /\ fixed.objs[n].values = CallerData

\* the block the destructor of n releases
OwnedBlock(n) ==
    IF ~fixed.objs[n].isDataExternal THEN fixed.objs[n].values ELSE nullptr

Called(made, dst, src) ==
    [made |-> made, dst |-> dst, src |-> src, view |-> IsView(src),
     size |-> fixed.objs[src].size, block |-> OwnedBlock(dst)]

\* FixedArray<T> n( allocator, FixedCap );
WrapConstruct ==
    /\ HasNewBlock(fixed)
    /\ \E n \in Names, fresh \in FreshFill(FixedCap) :
        /\ ~fixed.objs[n].alive
        /\ fixed' = FA_new(fixed, n, FixedCap, fresh)
        /\ other' = Called("constructor", n, n)
    /\ op' = "construct"
    /\ UNCHANGED notWrap

\* FixedArray<T> n( m );
WrapCopyConstruct ==
    /\ HasNewBlock(fixed)
    /\ \E n \in Names, m \in Names :
        /\ ~fixed.objs[n].alive
        /\ fixed.objs[m].alive
        /\ fixed.objs[m].values # nullptr
        /\ \E fresh \in FreshFill(fixed.objs[m].capacity) :
            fixed' = FA_copyConstruct(fixed, n, m, fresh)
        /\ other' = Called("copy", n, m)
    /\ op' = "copy"
    /\ UNCHANGED notWrap

\* FixedArray<T> n( std::move( m ) );
WrapMoveConstruct ==
    /\ \E n \in Names, m \in Names :
        /\ ~fixed.objs[n].alive
        /\ fixed.objs[m].alive
        /\ fixed' = FA_moveConstruct(fixed, n, m)
        /\ other' = Called("move", n, m)
    /\ op' = "move"
    /\ UNCHANGED notWrap

\* n = m;
WrapCopyAssign ==
    /\ HasNewBlock(fixed)
    /\ \E n \in Names, m \in Names :
        /\ n # m
        /\ fixed.objs[n].alive
        /\ fixed.objs[m].alive
        /\ fixed.objs[m].values # nullptr
        /\ \E fresh \in FreshFill(fixed.objs[m].capacity) :
            fixed' = FA_copyAssign(fixed, n, m, fresh)
        /\ other' = Called("copy", n, m)
    /\ op' = "copy"
    /\ UNCHANGED notWrap

\* n = std::move( m );
WrapMoveAssign ==
    /\ \E n \in Names, m \in Names :
        /\ n # m
        /\ fixed.objs[n].alive
        /\ fixed.objs[m].alive
        /\ fixed' = FA_moveAssign(fixed, n, m)
        /\ other' = Called("move", n, m)
    /\ op' = "move"
    /\ UNCHANGED notWrap

\* n goes out of scope
WrapDestroy ==
    /\ \E n \in Names :
        /\ fixed.objs[n].alive
        /\ fixed' = FA_destroy(fixed, n)
        /\ other' = Called("destructor", n, n)
    /\ op' = "destroy"
    /\ UNCHANGED notWrap

NextWrap ==
    \/ WrapConstruct
    \/ WrapCopyConstruct
    \/ WrapMoveConstruct
    \/ WrapCopyAssign
    \/ WrapMoveAssign
    \/ WrapDestroy

SpecWrap ==
    InitWrap /\ [][NextWrap]_vars

\* the caller's array was neither released nor written to
WrappedIntact ==
    /\ fixed.heap[CallerData].state = "caller"
    /\ \A i \in 1 .. FixedCap : fixed.heap[CallerData].data[i - 1] = ref[i]

\* the object made or assigned by the last call owns a block of its own,
\* allocated and not released, that holds the elements of the view
OwnsCopy ==
    LET o == fixed.objs[other.dst] IN
        /\ ~o.isDataExternal
        /\ o.values \notin {nullptr, CallerData}
        /\ fixed.heap[o.values].state = "allocated"
        /\ o.size = other.size
        /\ \A i \in 0 .. o.size - 1 : fixed.heap[o.values].data[i] = ref[i + 1]

\* C19: whatever was constructed, copied, moved, assigned and destroyed,
\* the array wrapped was not released and holds what it held; a copy of a
\* view owns separately allocated storage holding the elements of the view;
\* an object a view was moved to references the wrapped array as a view;
\* and the block an object owned is released by its destructor.
C19_ViewNeverReleases ==
    /\ WrappedIntact
    /\ op = "copy" /\ other.view => OwnsCopy
    /\ op = "move" /\ other.view => IsView(other.dst)
    /\ op = "destroy" /\ other.block # nullptr =>
          fixed.heap[other.block].state = "released"

(***************************************************************************)
(* Moves.  A DynamicArray, a FixedArray, a List or a Set is built with     *)
(* its own operations, then moved from by the move constructor or the      *)
(* move assignment, and then one value is pushed (added) to the container  *)
(* that was moved from.  other holds the container moved to (for the       *)
(* FixedArray, which lives in fixed, its name) and former, what the        *)
(* source held when it was moved from.                                     *)
(***************************************************************************)
InitMove ==
    /\ arr = DA_new
    /\ ret = NoRet
    /\ refRet = NoRet
    /\ op = "new"
    /\ pushOnly = TRUE
    /\ mend = NoMend
    /\ list = L_new
    /\ set = S_new(0)
    /\ map = M_new(MAP_MIN_BINS)
    /\ used = {}
    /\ hist = "adding"
    /\ build \in {"debug", "release"}
    /\ aborted = FALSE
    /\ other = NoOther
    /\ under \in {"DynamicArray", "FixedArray", "List", "Set"}
    /\ ref = IF under = "Set" THEN {} ELSE <<>>
    /\ IF under = "FixedArray"
       THEN fixed \in {FA_new(NoFixed, "a", FixedCap, f) :
                           f \in FreshFill(FixedCap)}
       ELSE fixed = NoFixed

SetBuildAdd == Building("Set") /\ SetAdd
SetBuildRemove == Building("Set") /\ SetRemove

\* what a call whose behaviour is undefined may do: end the program
\* there, or go on in a state nothing is known of
Undefined == {"crash", "undefined"}

\* the value pushed to the container that was moved from
Reused == 1

\* push( value ) on an array of capacity 0: shouldGrow() holds and
\* resize( 0 ) starts with assert( _values != nullptr ); without the assert
\* ( *this )[0] is a slot of new T[0]
DA_pushOutcomes(a, b) ==
    IF a.capacity # 0 THEN {"none"}
    ELSE IF b = "debug" THEN {"assert"}
    ELSE Undefined

\* push( value ) on a list of capacity 0: shouldGrow() holds, and
\* resize( 0 ) calls getNodeAt( 0 ), which asserts 0 < _count; without the
\* assert it reads _nodes[0] of no nodes and writes newList[0] of
\* new Node[0]
L_pushOutcomes(l, b) ==
    IF l.capacity # 0 THEN {"none"}
    ELSE IF b = "debug" THEN {"assert"}
    ELSE Undefined

\* push( value ): assert( _size < _capacity ); _values[_size++] = value;
\* with _values nullptr
FA_pushOutcomes(w, n, b) ==
    IF w.objs[n].values # nullptr /\ w.objs[n].size < w.objs[n].capacity
    THEN {"none"}
    ELSE IF b = "debug" THEN {"assert"}
    ELSE Undefined

\* add( value ): shouldGrow() divides by _binCount
S_addOutcomes(s) ==
    IF s.binCount # 0 THEN {"none"} ELSE Undefined

\* Set( Set&& set ) and operator=( Set&& set ): _values is moved as a
\* DynamicArray is, the bins are handed over, and set is left with
\* _bins nullptr, _binsInUse 0 and _binCount 0
S_moveConstruct(s, fresh) ==
    [ copy   |-> [s EXCEPT !.values = DA_moveConstruct(s.values, fresh).copy],
      source |-> [s EXCEPT !.values = DA_movedFrom,
                           !.bins = [i \in {} |-> BIN_EMPTY],
                           !.binsInUse = 0,
                           !.binCount = 0] ]

Moves == {"move constructor", "move assignment"}

\* the result of a call that ended with outcome
Outcome(outcome) ==
    IF outcome = "none" THEN Returned(NoRet) ELSE Thrown(outcome)

ArrayMove ==
    /\ Building("DynamicArray")
    /\ \E made \in Moves, fresh \in DA_Fresh(arr.capacity),
          outcome \in Overrun(DA_copyOverruns(arr)) :
        /\ arr' = DA_moveConstruct(arr, fresh).source
        /\ other' = [made |-> made,
                     dst |-> DA_moveConstruct(arr, fresh).copy,
                     former |-> DA_contents(arr)]
        /\ aborted' = (outcome = "crash")
        /\ ret' = Outcome(outcome)
    /\ refRet' = Returned(NoRet)
    /\ op' = "move"
    /\ UNCHANGED <<ref, pushOnly, mend, list, set, map, used, hist, build,
                   fixed, under>>

ListMove ==
    /\ Building("List")
    /\ \E made \in Moves,
          fresh \in L_Fresh(DoubleUpTo(LIST_MIN_CAPACITY, list.count)) :
        /\ list' = L_moveConstruct(list, fresh).source
        /\ other' = [made |-> made,
                     dst |-> L_moveConstruct(list, fresh).copy,
                     former |-> L_contents(list)]
    /\ ret' = Returned(NoRet)
    /\ refRet' = Returned(NoRet)
    /\ op' = "move"
    /\ UNCHANGED <<arr, ref, pushOnly, mend, set, map, used, hist, build,
                   aborted, fixed, under>>

\* FixedArray<T> b( std::move( a ) );  or
\* FixedArray<T> b( allocator, FixedCap ); b = std::move( a );
FixedMove ==
    /\ Building("FixedArray")
    /\ \E made \in Moves, fresh \in FreshFill(FixedCap) :
        /\ fixed' = IF made = "move constructor"
                    THEN FA_moveConstruct(fixed, "b", "a")
                    ELSE FA_moveAssign(FA_new(fixed, "b", FixedCap, fresh),
                                       "b", "a")
        /\ other' = [made |-> made, dst |-> "b",
                     former |-> FA_contents(fixed, "a")]
    /\ ret' = Returned(NoRet)
    /\ refRet' = Returned(NoRet)
    /\ op' = "move"
    /\ UNCHANGED <<arr, list, ref, pushOnly, mend, set, map, used, hist,
                   build, aborted, under>>

SetMove ==
    /\ Building("Set")
    /\ \E made \in Moves, fresh \in DA_Fresh(set.values.capacity) :
        /\ set' = S_moveConstruct(set, fresh).source
        /\ other' = [made |-> made,
                     dst |-> S_moveConstruct(set, fresh).copy,
                     former |-> S_contents(set)]
    /\ ret' = Returned(NoRet)
    /\ refRet' = Returned(NoRet)
    /\ op' = "move"
    /\ UNCHANGED <<arr, list, ref, pushOnly, mend, map, used, hist, build,
                   aborted, fixed, under>>

\* the container moved from is used again
Reusing(c) ==
    under = c /\ op = "move" /\ ~aborted

ArrayReuse ==
    /\ Reusing("DynamicArray")
    /\ \E outcome \in DA_pushOutcomes(arr, build) :
        /\ arr' = IF outcome = "none" THEN DA_push(arr, Reused) ELSE arr
        /\ ret' = Outcome(outcome)
        /\ aborted' = (outcome # "none")
    /\ refRet' = Returned(NoRet)
    /\ op' = "reuse"
    /\ UNCHANGED <<ref, pushOnly, mend, list, set, map, used, hist, build,
                   fixed, under, other>>

ListReuse ==
    /\ Reusing("List")
    /\ \E outcome \in L_pushOutcomes(list, build) :
        /\ list' = IF outcome = "none" THEN L_push(list, Reused) ELSE list
        /\ ret' = Outcome(outcome)
        /\ aborted' = (outcome # "none")
    /\ refRet' = Returned(NoRet)
    /\ op' = "reuse"
    /\ UNCHANGED <<arr, ref, pushOnly, mend, set, map, used, hist, build,
                   fixed, under, other>>

FixedReuse ==
    /\ Reusing("FixedArray")
    /\ \E outcome \in FA_pushOutcomes(fixed, "a", build) :
        /\ fixed' = IF outcome = "none"
                    THEN FA_push(fixed, "a", Reused, build).w
                    ELSE fixed
        /\ ret' = Outcome(outcome)
        /\ aborted' = (outcome # "none")
    /\ refRet' = Returned(NoRet)
    /\ op' = "reuse"
    /\ UNCHANGED <<arr, list, ref, pushOnly, mend, set, map, used, hist,
                   build, under, other>>

SetReuse ==
    /\ Reusing("Set")
    /\ \E outcome \in S_addOutcomes(set) :
        /\ set' = IF outcome = "none" THEN S_add(set, Reused) ELSE set
        /\ ret' = Outcome(outcome)
        /\ aborted' = (outcome # "none")
    /\ refRet' = Returned(NoRet)
    /\ op' = "reuse"
    /\ UNCHANGED <<arr, list, ref, pushOnly, mend, map, used, hist, build,
                   fixed, under, other>>

NextMove ==
    \/ NextBuild
    \/ SetBuildAdd
    \/ SetBuildRemove
    \/ ArrayMove
    \/ ListMove
    \/ FixedMove
    \/ SetMove
    \/ ArrayReuse
    \/ ListReuse
    \/ FixedReuse
    \/ SetReuse

SpecMove ==
    InitMove /\ [][NextMove]_vars

\* what the container moved to holds
MovedToContents ==
    CASE under = "DynamicArray" -> DA_contents(other.dst)
      [] under = "List" -> L_contents(other.dst)
      [] under = "FixedArray" -> FA_contents(fixed, other.dst)
      [] under = "Set" -> S_contents(other.dst)

\* what the container moved from holds
MovedFromContents ==
    CASE under = "DynamicArray" -> DA_contents(arr)
      [] under = "List" -> L_contents(list)
      [] under = "FixedArray" -> FA_contents(fixed, "a")
      [] under = "Set" -> S_contents(set)

\* C16: once a container was moved from, by the move constructor or the
\* move assignment, the call has returned, the container moved to holds
\* what the source held, in order, and the source holds nothing; a push
\* (an add) to the source after that returns as on a new container, and
\* the source then holds the one value pushed.
C16_MoveLeavesSourceReusable ==
    /\ op = "move" =>
          /\ ret = Returned(NoRet)
          /\ MovedToContents = other.former
          /\ MovedFromContents = <<>>
    /\ op = "reuse" =>
          /\ ret = Returned(NoRet)
          /\ MovedFromContents = <<Reused>>

(***************************************************************************)
(* Pushes and pops around the sizes at which the buffer is resized.        *)
(* other records whether each of the last two calls resized the buffer:    *)
(* last for the call that led to this state, prev for the one before it.   *)
(***************************************************************************)
InitThreshold ==
    /\ arr = DA_new
    /\ ref = <<>>
    /\ ret = NoRet
    /\ refRet = NoRet
    /\ op = "new"
    /\ pushOnly = TRUE
    /\ mend = NoMend
    /\ list = L_new
    /\ set = S_new(0)
    /\ map = M_new(MAP_MIN_BINS)
    /\ used = {}
    /\ hist = "adding"
    /\ build = "release"
    /\ aborted = FALSE
    /\ other = [made |-> "resizes", prev |-> "none", last |-> "none"]
    /\ fixed = NoFixed
    /\ under = "DynamicArray"

\* push( value ): if ( shouldGrow() ) grow();
ThresholdPush ==
    /\ arr.size < MaxPushes
    /\ LET v == BackVal(ref) IN
        /\ arr' = DA_push(arr, v)
        /\ ref' = Append(ref, v)
    /\ other' = [other EXCEPT
                    !.prev = other.last,
                    !.last = IF DA_shouldGrow(arr) THEN "push grew"
                             ELSE "push"]
    /\ ret' = NoRet
    /\ refRet' = NoRet
    /\ op' = "push"
    /\ UNCHANGED <<pushOnly, mend, list, set, map, used, hist, build,
                   aborted, fixed, under>>

\* pop(): if ( shouldShrink() ) shrink();
ThresholdPop ==
    /\ arr.size > 0
    /\ LET r == DA_pop(arr) IN
        /\ arr' = r.arr
        /\ ret' = r.ret
    /\ ref' = SubSeq(ref, 1, Len(ref) - 1)
    /\ refRet' = ref[Len(ref)]
    /\ other' = [other EXCEPT
                    !.prev = other.last,
                    !.last = IF DA_shouldShrink(arr) THEN "pop shrank"
                             ELSE "pop"]
    /\ op' = "pop"
    /\ UNCHANGED <<pushOnly, mend, list, set, map, used, hist, build,
                   aborted, fixed, under>>

NextThreshold ==
    \/ ThresholdPush
    \/ ThresholdPop

SpecThreshold ==
    InitThreshold /\ [][NextThreshold]_vars

\* C21: a push right after a pop that shrank the buffer does not grow it,
\* and a pop right after a push that grew the buffer does not shrink it.
C21_NoThrash ==
    /\ ~(other.prev = "pop shrank" /\ other.last = "push grew")
    /\ ~(other.prev = "push grew" /\ other.last = "pop shrank")

\* a pop shrank the buffer and the push after it left the buffer alone
C21_Witness ==
    /\ other.prev = "pop shrank"
    /\ other.last = "push"
    /\ arr.capacity = 2 * MIN_CAPACITY
    /\ DA_contents(arr) = ref

(***************************************************************************)
(* clear().  A container is constructed (with the default capacity or a    *)
(* requested one), filled, and cleared; after that the same calls are      *)
(* made on it and on a container just constructed, the twin.  other holds  *)
(* the twin (for the FixedArray, which lives in fixed, its name), and the  *)
(* capacity the container had when it was cleared; ret is what a call on   *)
(* the container gave back and refRet what the same call on the twin did.  *)
(***************************************************************************)
\* the containers hold at most this many elements after clear()
MaxAfterClear == 2

\* DynamicArray::clear()
DA_clear(a) ==
    [a EXCEPT !.size = 0, !.first = 0]

\* FixedArray::clear()
FA_clear(w, n) ==
    [w EXCEPT !.objs[n].size = 0]

\* List( capacity )
L_newCap(capacity) ==
    [ nodes     |-> [i \in 0 .. DoubleUpTo(LIST_MIN_CAPACITY, capacity) - 1
                        |-> L_rawNode],
      first     |-> 0,
      count     |-> 0,
      firstFree |-> 0,
      freeCount |-> 0,
      capacity  |-> DoubleUpTo(LIST_MIN_CAPACITY, capacity) ]

\* List::clear()
L_clear(l) ==
    [l EXCEPT !.first = 0, !.count = 0, !.firstFree = 0, !.freeCount = 0]

\* Set::clear()
S_clear(s) ==
    [s EXCEPT !.values = DA_clear(s.values),
              !.bins = MemoryUtils_set(BIN_EMPTY, s.binCount),
              !.binsInUse = 0]

InitClear ==
    /\ ret = NoRet
    /\ refRet = NoRet
    /\ op = "new"
    /\ pushOnly = TRUE
    /\ mend = NoMend
    /\ map = M_new(MAP_MIN_BINS)
    /\ used = {}
    /\ hist = "adding"
    /\ build = "release"
    /\ aborted = FALSE
    /\ other = NoOther
    /\ under \in {"DynamicArray", "FixedArray", "List", "Set"}
    /\ ref = IF under = "Set" THEN {} ELSE <<>>
    /\ IF under = "DynamicArray"
       THEN arr \in {DA_new, DA_newCap(2 * MIN_CAPACITY)}
       ELSE arr = DA_new
    /\ IF under = "List"
       THEN list \in {L_new, L_newCap(2 * LIST_MIN_CAPACITY)}
       ELSE list = L_new
    /\ IF under = "Set"
       THEN set \in {S_new(0), S_new(2 * MIN_BINS)}
       ELSE set = S_new(0)
    /\ IF under = "FixedArray"
       THEN fixed \in {FA_new(FA_new(NoFixed, "a", FixedCap, f), "b",
                              FixedCap, f) : f \in FreshFill(FixedCap)}
       ELSE fixed = NoFixed

\* the values pushed after clear()
AfterValues == {1, 2}

\* the container under test is c and it was cleared
Cleared(c) ==
    under = c /\ other # NoOther /\ ~aborted

ArrayClear ==
    /\ Building("DynamicArray")
    /\ arr' = DA_clear(arr)
    /\ other' = [made |-> "clear", twin |-> DA_new, capacity |-> arr.capacity]
    /\ ret' = Returned(NoRet)
    /\ refRet' = Returned(NoRet)
    /\ op' = "clear"
    /\ UNCHANGED <<ref, pushOnly, mend, list, set, map, used, hist, build,
                   aborted, fixed, under>>

ArrayClearedPush ==
    /\ Cleared("DynamicArray")
    /\ arr.size < MaxAfterClear
    /\ \E v \in AfterValues :
        /\ arr' = DA_push(arr, v)
        /\ other' = [other EXCEPT !.twin = DA_push(@, v)]
    /\ ret' = Returned(NoRet)
    /\ refRet' = Returned(NoRet)
    /\ op' = "push"
    /\ UNCHANGED <<ref, pushOnly, mend, list, set, map, used, hist, build,
                   aborted, fixed, under>>

ArrayClearedInsertAt ==
    /\ Cleared("DynamicArray")
    /\ arr.size < MaxAfterClear
    /\ \E v \in AfterValues, index \in 0 .. arr.size :
        /\ arr' = DA_insertAtOrThrow(arr, index, v).arr
        /\ ret' = DA_insertAtOrThrow(arr, index, v).ret
        /\ other' = [other EXCEPT
                        !.twin = DA_insertAtOrThrow(@, index, v).arr]
        /\ refRet' = DA_insertAtOrThrow(other.twin, index, v).ret
    /\ op' = "insertAt"
    /\ UNCHANGED <<ref, pushOnly, mend, list, set, map, used, hist, build,
                   aborted, fixed, under>>

ArrayClearedPop ==
    /\ Cleared("DynamicArray")
    /\ arr.size > 0
    /\ other.twin.size > 0
    /\ arr' = DA_pop(arr).arr
    /\ ret' = Returned(DA_pop(arr).ret)
    /\ other' = [other EXCEPT !.twin = DA_pop(@).arr]
    /\ refRet' = Returned(DA_pop(other.twin).ret)
    /\ op' = "pop"
    /\ UNCHANGED <<ref, pushOnly, mend, list, set, map, used, hist, build,
                   aborted, fixed, under>>

ArrayClearedRemoveAt ==
    /\ Cleared("DynamicArray")
    /\ \E index \in 0 .. arr.size - 1 :
        /\ index < other.twin.size
        /\ arr' = DA_removeAt(arr, index).arr
        /\ ret' = Returned(DA_removeAt(arr, index).ret)
        /\ other' = [other EXCEPT !.twin = DA_removeAt(@, index).arr]
        /\ refRet' = Returned(DA_removeAt(other.twin, index).ret)
    /\ op' = "removeAt"
    /\ UNCHANGED <<ref, pushOnly, mend, list, set, map, used, hist, build,
                   aborted, fixed, under>>

FixedClear ==
    /\ Building("FixedArray")
    /\ fixed' = FA_clear(fixed, "a")
    /\ other' = [made |-> "clear", twin |-> "b",
                 capacity |-> fixed.objs["a"].capacity]
    /\ ret' = Returned(NoRet)
    /\ refRet' = Returned(NoRet)
    /\ op' = "clear"
    /\ UNCHANGED <<arr, list, ref, pushOnly, mend, set, map, used, hist,
                   build, aborted, under>>

\* the same call on a and on b: call( w, n ) gives w afterwards and what
\* the call gave back
FixedBoth(call(_, _)) ==
    /\ fixed' = call(call(fixed, "a").w, "b").w
    /\ ret' = call(fixed, "a").ret
    /\ refRet' = call(fixed, "b").ret
    /\ UNCHANGED <<arr, list, ref, pushOnly, mend, set, map, used, hist,
                   build, aborted, under, other>>

FixedClearedPush ==
    /\ Cleared("FixedArray")
    /\ FixedSize < MaxAfterClear
    /\ \E v \in AfterValues :
        LET call(w, n) == FA_push(w, n, v, build) IN FixedBoth(call)
    /\ op' = "push"

FixedClearedInsertAt ==
    /\ Cleared("FixedArray")
    /\ FixedSize < MaxAfterClear
    /\ \E v \in AfterValues, index \in 0 .. FixedSize :
        LET call(w, n) == FA_insertAt(w, n, index, v, build, "copy")
        IN  FixedBoth(call)
    /\ op' = "insertAt"

FixedClearedPop ==
    /\ Cleared("FixedArray")
    /\ FixedSize > 0
    /\ fixed.objs["b"].size > 0
    /\ LET call(w, n) == FA_pop(w, n, build) IN FixedBoth(call)
    /\ op' = "pop"

FixedClearedRemoveAt ==
    /\ Cleared("FixedArray")
    /\ \E index \in 0 .. FixedSize - 1 :
        /\ index < fixed.objs["b"].size
        /\ LET call(w, n) == FA_removeAt(w, n, index, build)
           IN  FixedBoth(call)
    /\ op' = "removeAt"

\* removeAt( index ) writes _nodes[node.prev].next and
\* _nodes[node.next].prev: whether one of the two is no node of the list
L_removeOverrunsAt(g, pos) ==
    \/ g.nodes[pos].prev \notin 0 .. g.capacity - 1
    \/ g.nodes[pos].next \notin 0 .. g.capacity - 1

L_removeOverruns(l, index) ==
    IF L_shouldShrink(l)
    THEN L_removeOverrunsAt(L_shrink(l), L_getNodePos(L_shrink(l), index))
    ELSE L_removeOverrunsAt(l, L_getNodePos(l, index))

\* removeAt( index ) with the way it ended: gives the list after the call
\* and what the call gave back
L_removeAtOutcome(l, index, outcome) ==
    IF outcome = "none"
    THEN [list |-> L_removeAt(l, index).list,
          ret |-> Returned(L_removeAt(l, index).ret)]
    ELSE [list |-> l, ret |-> Thrown(outcome)]

ListClear ==
    /\ Building("List")
    /\ list' = L_clear(list)
    /\ other' = [made |-> "clear", twin |-> L_new,
                 capacity |-> list.capacity]
    /\ ret' = Returned(NoRet)
    /\ refRet' = Returned(NoRet)
    /\ op' = "clear"
    /\ UNCHANGED <<arr, ref, pushOnly, mend, set, map, used, hist, build,
                   aborted, fixed, under>>

ListClearedInsertAt ==
    /\ Cleared("List")
    /\ list.count < MaxAfterClear
    /\ \E v \in AfterValues, index \in 0 .. list.count :
        /\ index <= other.twin.count
        /\ list' = L_insertAt(list, index, v)
        /\ other' = [other EXCEPT !.twin = L_insertAt(@, index, v)]
    /\ ret' = Returned(NoRet)
    /\ refRet' = Returned(NoRet)
    /\ op' = "insertAt"
    /\ UNCHANGED <<arr, ref, pushOnly, mend, set, map, used, hist, build,
                   aborted, fixed, under>>

ListClearedPush ==
    /\ Cleared("List")
    /\ list.count < MaxAfterClear
    /\ \E v \in AfterValues :
        /\ list' = L_push(list, v)
        /\ other' = [other EXCEPT !.twin = L_push(@, v)]
    /\ ret' = Returned(NoRet)
    /\ refRet' = Returned(NoRet)
    /\ op' = "push"
    /\ UNCHANGED <<arr, ref, pushOnly, mend, set, map, used, hist, build,
                   aborted, fixed, under>>

\* removeAt( index ) on the list and on the twin
ListBothRemoveAt(index) ==
    /\ \E outcome \in Overrun(L_removeOverruns(list, index)) :
        /\ list' = L_removeAtOutcome(list, index, outcome).list
        /\ ret' = L_removeAtOutcome(list, index, outcome).ret
        /\ aborted' = (outcome # "none")
    /\ \E outcome \in Overrun(L_removeOverruns(other.twin, index)) :
        /\ other' = [other EXCEPT
                        !.twin = L_removeAtOutcome(@, index, outcome).list]
        /\ refRet' = L_removeAtOutcome(other.twin, index, outcome).ret
    /\ UNCHANGED <<arr, ref, pushOnly, mend, set, map, used, hist, build,
                   fixed, under>>

ListClearedPop ==
    /\ Cleared("List")
    /\ list.count > 0
    /\ list.count = other.twin.count
    /\ ListBothRemoveAt(list.count - 1)
    /\ op' = "pop"

ListClearedRemoveAt ==
    /\ Cleared("List")
    /\ \E index \in 0 .. list.count - 1 :
        /\ index < other.twin.count
        /\ ListBothRemoveAt(index)
    /\ op' = "removeAt"

SetClear ==
    /\ Building("Set")
    /\ set' = S_clear(set)
    /\ other' = [made |-> "clear", twin |-> S_new(0),
                 capacity |-> set.binCount]
    /\ ret' = Returned(NoRet)
    /\ refRet' = Returned(NoRet)
    /\ op' = "clear"
    /\ UNCHANGED <<arr, list, ref, pushOnly, mend, map, used, hist, build,
                   aborted, fixed, under>>

SetClearedAdd ==
    /\ Cleared("Set")
    /\ set.values.size < MaxAfterClear
    /\ \E k \in Keys :
        /\ set' = S_add(set, k)
        /\ other' = [other EXCEPT !.twin = S_add(@, k)]
    /\ ret' = Returned(NoRet)
    /\ refRet' = Returned(NoRet)
    /\ op' = "add"
    /\ UNCHANGED <<arr, list, ref, pushOnly, mend, map, used, hist, build,
                   aborted, fixed, under>>

SetClearedRemove ==
    /\ Cleared("Set")
    /\ \E k \in Keys :
        /\ set' = S_remove(set, k)
        /\ other' = [other EXCEPT !.twin = S_remove(@, k)]
    /\ ret' = Returned(NoRet)
    /\ refRet' = Returned(NoRet)
    /\ op' = "remove"
    /\ UNCHANGED <<arr, list, ref, pushOnly, mend, map, used, hist, build,
                   aborted, fixed, under>>

NextClear ==
    \/ ArrayBuildPush
    \/ ArrayBuildPushFront
    \/ ArrayBuildPop
    \/ ArrayBuildPopFront
    \/ ArrayClear
    \/ ArrayClearedPush
    \/ ArrayClearedInsertAt
    \/ ArrayClearedPop
    \/ ArrayClearedRemoveAt
    \/ FixedBuildPush
    \/ FixedBuildPushFront
    \/ FixedBuildPop
    \/ FixedClear
    \/ FixedClearedPush
    \/ FixedClearedInsertAt
    \/ FixedClearedPop
    \/ FixedClearedRemoveAt
    \/ ListBuildPush
    \/ ListBuildPop
    \/ ListClear
    \/ ListClearedPush
    \/ ListClearedInsertAt
    \/ ListClearedPop
    \/ ListClearedRemoveAt
    \/ SetBuildAdd
    \/ SetClear
    \/ SetClearedAdd
    \/ SetClearedRemove

SpecClear ==
    InitClear /\ [][NextClear]_vars

\* what the container under test holds, and what the twin holds
ClearedContents ==
    CASE under = "DynamicArray" -> DA_contents(arr)
      [] under = "List" -> L_contents(list)
      [] under = "FixedArray" -> FA_contents(fixed, "a")
      [] under = "Set" -> S_contents(set)

TwinContents ==
    CASE under = "DynamicArray" -> DA_contents(other.twin)
      [] under = "List" -> L_contents(other.twin)
      [] under = "FixedArray" -> FA_contents(fixed, "b")
      [] under = "Set" -> S_contents(other.twin)

\* capacity of the container under test (for the Set, its bins)
ClearedCapacity ==
    CASE under = "DynamicArray" -> arr.capacity
      [] under = "List" -> list.capacity
      [] under = "FixedArray" -> fixed.objs["a"].capacity
      [] under = "Set" -> set.binCount

\* C22: clear() leaves the container with no elements and the capacity it
\* had; every call after it gives back what the same call gives back on
\* a container just constructed, and leaves the same elements in the same
\* order (for the Set, also the same answers of has() for every key).
C22_ClearedIsLikeNew ==
    /\ op = "clear" =>
          /\ ClearedContents = <<>>
          /\ ClearedCapacity = other.capacity
    /\ other # NoOther =>
          /\ ret = refRet
          /\ ret.thrown = "none" => ClearedContents = TwinContents
          /\ under = "Set" =>
                \A k \in Keys : S_has(set, k) = S_has(other.twin, k)

(***************************************************************************)
(* Iterators.  An iterator of a DynamicArray or a FixedArray holds         *)
(* _iterIndex; an iterator of a List holds _iterIndex, the node it is at,  *)
(* and _iterPos, the number of the element.  (uint32)-1 is written -1.     *)
(* The container is built, then a loop runs over it:                       *)
(*     for ( iter = begin(); iter != end(); ++iter ) seen.push( *iter );   *)
(*     for ( iter = --end(); iter != end(); --iter ) seen.push( *iter );   *)
(* with the prefix or the postfix operator.  other holds the loop: the     *)
(* iterator, the operator, and what the loop has seen.                     *)
(***************************************************************************)
\* ArrayIterator::operator++() and operator++( int32 )
ArrayIterator_inc(iter) ==
    [iter EXCEPT !.index = @ + 1]

\* ArrayIterator::operator--() and operator--( int32 )
ArrayIterator_dec(iter, size) ==
    [iter EXCEPT !.index = IF @ > 0 THEN @ - 1 ELSE size]

\* SetIterator::operator++() and operator++( int32 )
SetIterator_inc(l, iter) ==
    [index |-> l.nodes[iter.index].next, pos |-> iter.pos + 1]

\* SetIterator::operator--() (fix "prefix") and operator--( int32 );
\* _iterPos is a uint32, greater than 0 whenever it is not 0
SetIterator_dec(l, iter, fix) ==
    [index |-> l.nodes[iter.index].prev,
     pos |-> IF iter.pos # 0 THEN iter.pos - 1
             ELSE IF fix = "prefix" THEN l.count
             ELSE -1]

\* begin() and end() of the container under test
IterBegin ==
    CASE under = "List" -> [index |-> list.first, pos |-> 0]
      [] OTHER -> [index |-> 0]

IterEnd ==
    CASE under = "DynamicArray" -> [index |-> arr.size]
      [] under = "FixedArray" -> [index |-> FixedSize]
      [] under = "List" -> [index |-> list.first, pos |-> list.count]

\* ++iter, iter++
IterInc(iter) ==
    CASE under = "List" -> SetIterator_inc(list, iter)
      [] OTHER -> ArrayIterator_inc(iter)

\* --iter, iter--
IterDec(iter, fix) ==
    CASE under = "DynamicArray" -> ArrayIterator_dec(iter, arr.size)
      [] under = "FixedArray" -> ArrayIterator_dec(iter, FixedSize)
      [] under = "List" -> SetIterator_dec(list, iter, fix)

\* *iter
IterDeref(iter) ==
    CASE under = "DynamicArray" -> DA_get(arr, iter.index)
      [] under = "FixedArray" -> FA_data(fixed, "a")[iter.index]
      [] under = "List" -> list.nodes[iter.index].value

\* iter == end(): the arrays compare _iterIndex, the List _iterPos
IterAtEnd(iter) ==
    CASE under = "List" -> iter.pos = IterEnd.pos
      [] OTHER -> iter.index = IterEnd.index

\* container[0], ..., container[size() - 1]
IterContents ==
    CASE under = "DynamicArray" -> DA_contents(arr)
      [] under = "FixedArray" -> FA_contents(fixed, "a")
      [] under = "List" -> L_contents(list)

Fixes == {"prefix", "postfix"}

\* iter = begin()
IterateForward ==
    /\ under \in {"DynamicArray", "FixedArray", "List"}
    /\ ~aborted
    /\ other = NoOther
    /\ \E fix \in Fixes :
        other' = [made |-> "loop", way |-> "++", fix |-> fix,
                  iter |-> IterBegin, seen |-> <<>>]
    /\ op' = "begin"
    /\ UNCHANGED <<arr, list, fixed, ref, ret, refRet, pushOnly, mend, set,
                   map, used, hist, build, aborted, under>>

\* iter = --end()
IterateBackward ==
    /\ under \in {"DynamicArray", "FixedArray", "List"}
    /\ ~aborted
    /\ other = NoOther
    /\ \E fix \in Fixes :
        other' = [made |-> "loop", way |-> "--", fix |-> fix,
                  iter |-> IterDec(IterEnd, "prefix"), seen |-> <<>>]
    /\ op' = "--end"
    /\ UNCHANGED <<arr, list, fixed, ref, ret, refRet, pushOnly, mend, set,
                   map, used, hist, build, aborted, under>>

\* the body of the loop and its step, while iter != end(); the loop is
\* followed for one round more than the container has elements
IterateStep ==
    /\ other # NoOther
    /\ ~IterAtEnd(other.iter)
    /\ Len(other.seen) <= Len(IterContents)
    /\ other' = [other EXCEPT
                    !.seen = Append(@, IterDeref(other.iter)),
                    !.iter = IF other.way = "++" THEN IterInc(@)
                             ELSE IterDec(@, other.fix)]
    /\ op' = "step"
    /\ UNCHANGED <<arr, list, fixed, ref, ret, refRet, pushOnly, mend, set,
                   map, used, hist, build, aborted, under>>

NextIterate ==
    \/ ArrayBuildPush
    \/ ArrayBuildPushFront
    \/ ArrayBuildPop
    \/ ArrayBuildPopFront
    \/ FixedBuildPush
    \/ FixedBuildPushFront
    \/ FixedBuildPop
    \/ ListBuildPush
    \/ ListBuildPushFront
    \/ ListBuildPop
    \/ IterateForward
    \/ IterateBackward
    \/ IterateStep

SpecIterate ==
    InitAt /\ [][NextIterate]_vars

\* the elements in the order the loop is to see them
RECURSIVE Reversed(_)
Reversed(seq) ==
    IF seq = <<>> THEN <<>>
    ELSE Append(Reversed(Tail(seq)), Head(seq))

LoopOrder ==
    IF other.way = "++" THEN IterContents ELSE Reversed(IterContents)

\* C23: a loop from begin() with ++, or from --end() with --, prefix or
\* postfix, sees the elements in the order of the indices (in reverse
\* order for --), and its iterator equals end() exactly when it has seen
\* all size() of them.
C23_IterationIsOrdered ==
    other # NoOther =>
        /\ Len(other.seen) <= Len(LoopOrder)
        /\ other.seen = SubSeq(LoopOrder, 1, Len(other.seen))
        /\ IterAtEnd(other.iter) <=> Len(other.seen) = Len(LoopOrder)

(***************************************************************************)
(* CountingAllocator<T>.  The counts are the world [count, g_count]:       *)
(* _count of each instance and the static g_count of the type.  other      *)
(* holds the world, the blocks that are allocated, the last call with the  *)
(* world before it, and the sums of the counts of the calls that were      *)
(* executed.  A count below 0 stands for the uint32 2^32 more.  A build    *)
(* with asserts ends at a failed assert; a build with NDEBUG has none.     *)
(* release is called with nullptr or a pointer got and not yet released,   *)
(* or with any pointer when an assert stops it before delete[].            *)
(***************************************************************************)
Instances == {"alloc", "otherAlloc"}

MaxGetCount == 2

MaxGot == 4

MaxLive == 2

Pointers == 1 .. MaxLive

\* CountingAllocator(): _count( 0 ); g_count = 0
CA_new ==
    [count |-> [i \in Instances |-> 0], g_count |-> 0]

\* the assert of get fails
CA_getAsserts(count) ==
    ~(count > 0)

\* get( count ) of instance i
CA_get(w, i, count) ==
    [w EXCEPT !.count[i] = @ + count, !.g_count = @ + count]

\* one of the asserts of release fails
CA_releaseAsserts(w, i, pointer, count) ==
    \/ ~(pointer # nullptr)
    \/ ~(count > 0)
    \/ ~(w.count[i] >= count)

\* release that leaves g_count as it is
CA_release_localOnly(w, i, count) ==
    [w EXCEPT !.count[i] = @ - count]

\* release( pointer, count ) of instance i
CA_release(w, i, count) ==
    [w EXCEPT !.count[i] = @ - count, !.g_count = @ - count]

InitAlloc ==
    /\ arr = DA_new
    /\ ref = <<>>
    /\ ret = NoRet
    /\ refRet = NoRet
    /\ op = "new"
    /\ pushOnly = TRUE
    /\ mend = NoMend
    /\ list = L_new
    /\ set = S_new(0)
    /\ map = M_new(MAP_MIN_BINS)
    /\ used = {}
    /\ hist = "adding"
    /\ build \in {"debug", "release"}
    /\ aborted = FALSE
    /\ other = [made |-> "allocators", world |-> CA_new, before |-> CA_new,
                live |-> {},
                got |-> [i \in Instances |-> 0],
                released |-> [i \in Instances |-> 0],
                call |-> [inst |-> "alloc", pointer |-> nullptr, count |-> 0]]
    /\ fixed = NoFixed
    /\ under = "CountingAllocator"

notAlloc == <<arr, ref, ret, refRet, pushOnly, mend, list, set, map, used,
              hist, build, fixed, under>>

\* pointer = i.get( count )
AllocGet ==
    /\ ~aborted
    /\ \E i \in Instances, count \in 0 .. MaxGetCount,
          pointer \in Pointers \ other.live :
        /\ other.got[i] + count <= MaxGot
        /\ IF build = "debug" /\ CA_getAsserts(count)
           THEN /\ aborted' = TRUE
                /\ other' = [other EXCEPT
                     !.before = other.world,
                     !.call = [inst |-> i, pointer |-> nullptr,
                               count |-> count]]
           ELSE /\ aborted' = FALSE
                /\ other' = [other EXCEPT
                     !.before = other.world,
                     !.world = CA_get(@, i, count),
                     !.live = @ \cup {pointer},
                     !.got[i] = @ + count,
                     !.call = [inst |-> i, pointer |-> pointer,
                               count |-> count]]
    /\ op' = "get"
    /\ UNCHANGED notAlloc

\* i.release( pointer, count )
AllocRelease ==
    /\ ~aborted
    /\ \E i \in Instances, count \in 0 .. MaxGetCount + 1,
          pointer \in {nullptr} \cup Pointers :
        /\ other.released[i] + count <= MaxGot
        /\ IF build = "debug"
              /\ CA_releaseAsserts(other.world, i, pointer, count)
           THEN /\ aborted' = TRUE
                /\ other' = [other EXCEPT
                     !.before = other.world,
                     !.call = [inst |-> i, pointer |-> pointer,
                               count |-> count]]
           ELSE /\ pointer \in {nullptr} \cup other.live
                /\ aborted' = FALSE
                /\ other' = [other EXCEPT
                     !.before = other.world,
                     !.world = CA_release(@, i, count),
                     !.live = @ \ {pointer},
                     !.released[i] = @ + count,
                     !.call = [inst |-> i, pointer |-> pointer,
                               count |-> count]]
    /\ op' = "release"
    /\ UNCHANGED notAlloc

NextAlloc ==
    \/ AllocGet
    \/ AllocRelease

SpecAlloc ==
    InitAlloc /\ [][NextAlloc]_vars

\* C24: getAllocationCount() of each instance is the sum of the counts it
\* got minus the sum of the counts it released, getGlobalAllocationCount()
\* is the sum of the instances' counts, and, asserts being checked, a
\* release with count 0, with nullptr or with a count above the count of
\* the instance fails an assert and changes neither count.
C24_CountsAreSums ==
    /\ \A i \in Instances :
          other.world.count[i] = other.got[i] - other.released[i]
    /\ other.world.g_count =
          other.world.count["alloc"] + other.world.count["otherAlloc"]
    /\ /\ build = "debug"
       /\ op = "release"
       /\ \/ other.call.count = 0
          \/ other.call.pointer = nullptr
          \/ other.call.count > other.before.count[other.call.inst]
       => /\ aborted
          /\ other.world = other.before

\* a release of more than the instance has, while the other instance has
\* that much, has failed its assert
C24_Witness ==
    /\ build = "debug"
    /\ op = "release"
    /\ aborted
    /\ other.call.pointer # nullptr
    /\ other.call.count = 2
    /\ other.before.count[other.call.inst] = 1
    /\ other.before.g_count = 3

(***************************************************************************)
(* MemoryUtils::copy and MemoryUtils::move called on two arrays a and b    *)
(* of MemLen elements of a type that std::move copies (uint32, char):      *)
(* MemoryUtils::copy( a, b, count ), MemoryUtils::move( a, b, count ).     *)
(* other holds the two arrays, and what they were before the last call.    *)
(***************************************************************************)
MemLen == 2

MemValues == 1 .. 3

MemArrays == [0 .. MemLen - 1 -> MemValues]

\* MemoryUtils::move( src, dst, count ): dst[i] = std::move( src[i] )
MemoryUtils_move(src, srcAt, dst, dstAt, count) ==
    [i \in DOMAIN dst |->
        IF i >= dstAt /\ i < dstAt + count THEN src[srcAt + (i - dstAt)]
        ELSE dst[i]]

InitMemory ==
    /\ arr = DA_new
    /\ ref = <<>>
    /\ ret = NoRet
    /\ refRet = NoRet
    /\ op = "new"
    /\ pushOnly = TRUE
    /\ mend = NoMend
    /\ list = L_new
    /\ set = S_new(0)
    /\ map = M_new(MAP_MIN_BINS)
    /\ used = {}
    /\ hist = "adding"
    /\ build = "release"
    /\ aborted = FALSE
    /\ \E a \in MemArrays, b \in MemArrays :
        other = [made |-> "arrays", a |-> a, b |-> b,
                 formerA |-> a, formerB |-> b, count |-> 0]
    /\ fixed = NoFixed
    /\ under = "MemoryUtils"

notMemory == <<arr, ref, ret, refRet, pushOnly, mend, list, set, map, used,
               hist, build, aborted, fixed, under>>

\* MemoryUtils::copy( a, b, count ): a is src, b is dst
MemoryCopy ==
    /\ \E count \in 0 .. MemLen :
        other' = [other EXCEPT
            !.formerA = other.a,
            !.formerB = other.b,
            !.count = count,
            !.b = MemoryUtils_copy(other.a, 0, other.b, 0, count)]
    /\ op' = "copy"
    /\ UNCHANGED notMemory

\* MemoryUtils::move( a, b, count ): a is src, b is dst
MemoryMove ==
    /\ \E count \in 0 .. MemLen :
        other' = [other EXCEPT
            !.formerA = other.a,
            !.formerB = other.b,
            !.count = count,
            !.b = MemoryUtils_move(other.a, 0, other.b, 0, count)]
    /\ op' = "move"
    /\ UNCHANGED notMemory

NextMemory ==
    \/ MemoryCopy
    \/ MemoryMove

SpecMemory ==
    InitMemory /\ [][NextMemory]_vars

\* C25: copy( a, b, count ) and move( a, b, count ) write into a: after
\* the call a[i] is what b[i] was, for every i < count, and copy leaves b
\* as it was.
C25_WritesFirstArgument ==
    op \in {"copy", "move"} =>
        /\ \A i \in 0 .. other.count - 1 : other.a[i] = other.formerB[i]
        /\ op = "copy" => other.b = other.formerB

(***************************************************************************)
(* Timer (timer.h, timer.cpp).  The clock counts ticks of 1 / RES seconds, *)
(* now is its reading.  The timer is the record of its members; its time   *)
(* scale stays the 1.0f of the constructor.  other holds the clock, the    *)
(* timer, and what an observer of the calls knows: running, the number of  *)
(* ticks since the last start() that took effect during which the timer    *)
(* was started and not paused; stopped, that stop() was called on the      *)
(* started timer and start() not since; atPause, elapsedTicks() right      *)
(* after the last pause().                                                 *)
(***************************************************************************)
MaxClock == 16

\* toTicks( toSeconds( d ) * _timeScale ) with _timeScale 1.0f, for d below
\* 32 ticks: duration_cast computes static_cast<float>( d ) / 1e9f, then
\* static_cast<uint64>( seconds * 1e9f ).  In IEEE single precision the
\* product is d, except for 15, 30 and 31 where it falls just below d and
\* the cast cuts it to d - 1.
Timer_scaledTicks(d) ==
    IF d \in {15, 30, 31} THEN d - 1 ELSE d

\* Timer()
Timer_new ==
    [lastAccumulated |-> 0, elapsed |-> 0, timeScale |-> 1,
     isPaused |-> FALSE, hasStarted |-> FALSE]

\* start()
Timer_start(t, now) ==
    IF t.hasStarted THEN t
    ELSE [t EXCEPT !.hasStarted = TRUE, !.isPaused = FALSE,
                   !.elapsed = 0, !.lastAccumulated = now]

\* accumulateTicks( dt )
Timer_accumulateTicks(t, dt) ==
    [t EXCEPT !.elapsed = @ + Timer_scaledTicks(dt)]

\* lap()
Timer_lap(t, now) ==
    IF ~t.hasStarted \/ t.isPaused THEN t
    ELSE Timer_accumulateTicks([t EXCEPT !.lastAccumulated = now],
                               now - t.lastAccumulated)

\* pause()
Timer_pause(t, now) ==
    IF ~t.hasStarted \/ t.isPaused THEN t
    ELSE [Timer_lap(t, now) EXCEPT !.isPaused = TRUE]

\* resume()
Timer_resume(t, now) ==
    IF ~t.hasStarted \/ ~t.isPaused THEN t
    ELSE [t EXCEPT !.lastAccumulated = now, !.isPaused = FALSE]

\* stop()
Timer_stop(t) ==
    [t EXCEPT !.hasStarted = FALSE]

\* elapsedTicks()
Timer_elapsedTicks(t, now) ==
    IF ~t.hasStarted \/ t.isPaused THEN t.elapsed
    ELSE t.elapsed + Timer_scaledTicks(now - t.lastAccumulated)

InitTimer ==
    /\ arr = DA_new
    /\ ref = <<>>
    /\ ret = NoRet
    /\ refRet = NoRet
    /\ op = "new"
    /\ pushOnly = TRUE
    /\ mend = NoMend
    /\ list = L_new
    /\ set = S_new(0)
    /\ map = M_new(MAP_MIN_BINS)
    /\ used = {}
    /\ hist = "adding"
    /\ build = "release"
    /\ aborted = FALSE
    /\ other = [made |-> "timer", now |-> 0, timer |-> Timer_new,
                running |-> 0, stopped |-> FALSE, atPause |-> 0]
    /\ fixed = NoFixed
    /\ under = "Timer"

notTimer == <<arr, ref, ret, refRet, pushOnly, mend, list, set, map, used,
              hist, build, aborted, fixed, under>>

Running(t) == t.hasStarted /\ ~t.isPaused

\* the clock goes on by one tick
ClockTick ==
    /\ other.now < MaxClock
    /\ other' = [other EXCEPT
            !.now = @ + 1,
            !.running = IF Running(other.timer) THEN @ + 1 ELSE @]
    /\ op' = "tick"
    /\ UNCHANGED notTimer

TimerStart ==
    /\ other' = [other EXCEPT
            !.timer = Timer_start(@, other.now),
            !.running = IF other.timer.hasStarted THEN @ ELSE 0,
            !.stopped = FALSE]
    /\ op' = "start"
    /\ UNCHANGED notTimer

TimerLap ==
    /\ other' = [other EXCEPT !.timer = Timer_lap(@, other.now)]
    /\ op' = "lap"
    /\ UNCHANGED notTimer

TimerPause ==
    /\ LET t == Timer_pause(other.timer, other.now) IN
        other' = [other EXCEPT
            !.timer = t,
            !.atPause = IF Running(other.timer)
                        THEN Timer_elapsedTicks(t, other.now) ELSE @]
    /\ op' = "pause"
    /\ UNCHANGED notTimer

TimerResume ==
    /\ other' = [other EXCEPT !.timer = Timer_resume(@, other.now)]
    /\ op' = "resume"
    /\ UNCHANGED notTimer

TimerStop ==
    /\ other' = [other EXCEPT
            !.timer = Timer_stop(@),
            !.stopped = @ \/ other.timer.hasStarted]
    /\ op' = "stop"
    /\ UNCHANGED notTimer

NextTimer ==
    \/ ClockTick
    \/ TimerStart
    \/ TimerLap
    \/ TimerPause
    \/ TimerResume
    \/ TimerStop

SpecTimer ==
    InitTimer /\ [][NextTimer]_vars

\* C26: from stop() to the next start(), whatever the clock reads,
\* elapsedTicks() is the time the timer ran between start() and stop().
C26_StopKeepsElapsed ==
    other.stopped =>
        Timer_elapsedTicks(other.timer, other.now) = other.running

\* C27: on a started timer elapsedTicks() is the sum of the intervals in
\* which the timer was started and not paused: it stays as it is while
\* the timer is paused and the time paused is not counted after resume().
C27_PausedTimeExcluded ==
    other.timer.hasStarted =>
        Timer_elapsedTicks(other.timer, other.now) = other.running

(***************************************************************************)
(* Scene (scene.h, scene.cpp).  arr is _tickables, a DynamicArray of       *)
(* pointers to tickables; a tickable counts the calls it receives and      *)
(* does nothing else (MockTickable).  other holds the calls of the last    *)
(* update in the order they were made, and what the caller knows: the      *)
(* tickables added and not since removed, and for each tickable the        *)
(* number of addTickable calls less the removals since.                    *)
(***************************************************************************)
NumTickables == 2

MaxTickables == 3

Tickables == 1 .. NumTickables

Elapsed == {0, 10}

\* Scene()
Scene_new == DA_new

\* addTickable( tickable )
Scene_addTickable(a, tickable) ==
    DA_push(a, tickable)

\* removeTickable( tickable )
Scene_removeTickable(a, tickable) ==
    LET index == DA_indexOf(a, tickable)
    IN  IF index # -1 THEN DA_removeAt(a, index).arr ELSE a

\* removeAll()
Scene_removeAll(a) ==
    DA_clear(a)

\* for ( iter = _tickables.begin(); iter != _tickables.end(); ++iter )
\*     ( *iter )->call
RECURSIVE Scene_loop(_, _, _, _)
Scene_loop(a, iter, call, calls) ==
    IF iter.index # a.size
    THEN Scene_loop(a, ArrayIterator_inc(iter), call,
                    Append(calls, [to |-> DA_get(a, iter.index),
                                   call |-> call]))
    ELSE calls

\* update( dtS ): the calls it makes, in order
Scene_update(a, dtS) ==
    LET preticks == Scene_loop(a, [index |-> 0], [name |-> "pretick"], <<>>)
        ticks == Scene_loop(a, [index |-> 0],
                            [name |-> "tick", dtS |-> dtS], preticks)
    IN  Scene_loop(a, [index |-> 0], [name |-> "postick"], ticks)

InitScene ==
    /\ arr = Scene_new
    /\ ref = <<>>
    /\ ret = NoRet
    /\ refRet = NoRet
    /\ op = "new"
    /\ pushOnly = TRUE
    /\ mend = NoMend
    /\ list = L_new
    /\ set = S_new(0)
    /\ map = M_new(MAP_MIN_BINS)
    /\ used = {}
    /\ hist = "adding"
    /\ build = "release"
    /\ aborted = FALSE
    /\ other = [made |-> "scene", registered |-> {},
                times |-> [t \in Tickables |-> 0],
                calls |-> <<>>, dtS |-> 0]
    /\ fixed = NoFixed
    /\ under = "Scene"

notScene == <<ref, ret, refRet, pushOnly, mend, list, set, map, used, hist,
              build, aborted, fixed, under>>

SceneAddTickable ==
    /\ arr.size < MaxTickables
    /\ \E t \in Tickables :
        /\ arr' = Scene_addTickable(arr, t)
        /\ other' = [other EXCEPT !.registered = @ \cup {t},
                                  !.times[t] = @ + 1]
    /\ op' = "addTickable"
    /\ UNCHANGED notScene

SceneRemoveTickable ==
    /\ \E t \in Tickables :
        /\ arr' = Scene_removeTickable(arr, t)
        /\ other' = [other EXCEPT !.registered = @ \ {t},
                                  !.times[t] = IF @ > 0 THEN @ - 1 ELSE 0]
    /\ op' = "removeTickable"
    /\ UNCHANGED notScene

SceneRemoveAll ==
    /\ arr' = Scene_removeAll(arr)
    /\ other' = [other EXCEPT !.registered = {},
                              !.times = [t \in Tickables |-> 0]]
    /\ op' = "removeAll"
    /\ UNCHANGED notScene

SceneUpdate ==
    /\ \E dtS \in Elapsed :
        other' = [other EXCEPT !.calls = Scene_update(arr, dtS),
                               !.dtS = dtS]
    /\ op' = "update"
    /\ UNCHANGED <<arr>>
    /\ UNCHANGED notScene

NextScene ==
    \/ SceneAddTickable
    \/ SceneRemoveTickable
    \/ SceneRemoveAll
    \/ SceneUpdate

SpecScene ==
    InitScene /\ [][NextScene]_vars

\* the places in the calls of the last update of the calls of one name
\* made to tickable t
CallsTo(t, name) ==
    {i \in 1 .. Len(other.calls) :
        other.calls[i].to = t /\ other.calls[i].call.name = name}

PhasesInOrder ==
    \A i, j \in 1 .. Len(other.calls) :
        \/ /\ other.calls[i].call.name = "pretick"
           /\ other.calls[j].call.name \in {"tick", "postick"}
        \/ /\ other.calls[i].call.name = "tick"
           /\ other.calls[j].call.name = "postick"
        => i < j

\* C28: in an update( dtS ) every tickable added and not since removed
\* receives one pretick, one tick( dtS ) and one postick, a tickable that
\* was removed receives no call, and all the preticks come before the
\* ticks and all the ticks before the posticks.
C28_UpdateNotifiesRegistered ==
    op = "update" =>
        /\ \A t \in Tickables, name \in {"pretick", "tick", "postick"} :
              Cardinality(CallsTo(t, name)) =
                  IF t \in other.registered THEN 1 ELSE 0
        /\ \A i \in 1 .. Len(other.calls) :
              other.calls[i].call.name = "tick"
                  => other.calls[i].call.dtS = other.dtS
        /\ PhasesInOrder

(***************************************************************************)
(* The storage of a DynamicArray.  A DynamicArray has the members _values, *)
(* _first, _size, _capacity and _allocator; resize is the only function    *)
(* that gets or releases a buffer after the constructor.  other holds the  *)
(* capacities of the buffers got from the allocator and not released, the  *)
(* newest last, and for the last call whether it resized and how many      *)
(* elements it moved out of the old buffer, of how many.                   *)
(***************************************************************************)
\* resize( newCapacity ): the buffer it gets, the number of elements its
\* loop moves, the buffer it releases
DA_resizeStorage(a, newCapacity) ==
    [got |-> newCapacity, moved |-> a.size, released |-> a.capacity]

\* the buffers held after a resize that did st
HeldAfter(buffers, st) ==
    LET all == Append(buffers, st.got)
        old == CHOOSE i \in 1 .. Len(all) : all[i] = st.released
    IN  [i \in 1 .. Len(all) - 1 |-> IF i < old THEN all[i] ELSE all[i + 1]]

NoResize == [made |-> "storage", buffers |-> <<MIN_CAPACITY>>,
             resized |-> FALSE, moved |-> 0, oldLength |-> 0]

InitStorage ==
    /\ arr = DA_new
    /\ ref = <<>>
    /\ ret = NoRet
    /\ refRet = NoRet
    /\ op = "new"
    /\ pushOnly = TRUE
    /\ mend = NoMend
    /\ list = L_new
    /\ set = S_new(0)
    /\ map = M_new(MAP_MIN_BINS)
    /\ used = {}
    /\ hist = "adding"
    /\ build = "release"
    /\ aborted = FALSE
    /\ other = NoResize
    /\ fixed = NoFixed
    /\ under = "DynamicArray"

\* what other is after a call that resized to newCapacity if resizes
Stored(resizes, newCapacity) ==
    IF resizes
    THEN LET st == DA_resizeStorage(arr, newCapacity) IN
         [other EXCEPT !.buffers = HeldAfter(@, st),
                       !.resized = TRUE,
                       !.moved = st.moved,
                       !.oldLength = arr.size]
    ELSE [other EXCEPT !.resized = FALSE, !.moved = 0]

\* push( value )
StoragePush ==
    /\ arr.size < MaxPushes
    /\ LET v == BackVal(ref) IN
        /\ arr' = DA_push(arr, v)
        /\ ref' = Append(ref, v)
    /\ other' = Stored(DA_shouldGrow(arr), arr.capacity * 2)
    /\ ret' = NoRet
    /\ refRet' = NoRet
    /\ op' = "push"
    /\ UNCHANGED <<pushOnly, mend, list, set, map, used, hist, build,
                   aborted, fixed, under>>

\* pop()
StoragePop ==
    /\ arr.size > 0
    /\ LET r == DA_pop(arr) IN
        /\ arr' = r.arr
        /\ ret' = r.ret
    /\ ref' = SubSeq(ref, 1, Len(ref) - 1)
    /\ refRet' = ref[Len(ref)]
    /\ other' = Stored(DA_shouldShrink(arr), arr.capacity \div 2)
    /\ op' = "pop"
    /\ UNCHANGED <<pushOnly, mend, list, set, map, used, hist, build,
                   aborted, fixed, under>>

\* ( *this )[index], for the first and the last index
StorageIndex ==
    /\ arr.size > 0
    /\ \E index \in {0, arr.size - 1} :
        /\ ret' = DA_get(arr, index)
        /\ refRet' = ref[index + 1]
    /\ other' = Stored(FALSE, arr.capacity)
    /\ op' = "operator[]"
    /\ UNCHANGED <<arr, ref, pushOnly, mend, list, set, map, used, hist,
                   build, aborted, fixed, under>>

NextStorage ==
    \/ StoragePush
    \/ StoragePop
    \/ StorageIndex

SpecStorage ==
    InitStorage /\ [][NextStorage]_vars

\* C29: a call that grows or shrinks the array leaves it holding the old
\* buffer besides the new one, with no element moved yet; the old buffer
\* is released by a later call, once all elements are moved.
C29_ResizeIsProgressive ==
    other.resized =>
        /\ Len(other.buffers) = 2
        /\ other.moved = 0

(***************************************************************************)
(* The capacity of a DynamicArray.  The array is constructed with the      *)
(* default capacity or a requested one, and push, pushFront, insertAt,     *)
(* pop, popFront, removeAt and clear are called on it in any order, each   *)
(* where its comment defines it (not on an empty array; an index out of    *)
(* bounds throws before anything is changed).  All elements are 1.  other  *)
(* holds the largest capacity the array has had and whether it was         *)
(* cleared.                                                                *)
(***************************************************************************)
(* The capacity of a DynamicArray.  The array is constructed with the      *)
(* default capacity or a requested one, and push, pushFront, insertAt,     *)
(* pop, popFront, removeAt and clear are called on it in any order, each   *)
(* where its comment defines it (not on an empty array; an index out of    *)
(* bounds throws before anything is changed).  Every element is            *)
(* (uint32)-1, the value the model also writes for a slot whose value is   *)
(* not specified, so that a state is _first, _size and _capacity.  other   *)
(* holds the capacity the array was constructed with, the largest it has   *)
(* had, and whether it was cleared.                                        *)
(***************************************************************************)
Requested == {0, 1, 32, 33, 64, 65, 128}

InitCapacity ==
    /\ arr \in {DA_new} \cup {DA_newCap(c) : c \in Requested}
    /\ ref = <<>>
    /\ ret = NoRet
    /\ refRet = NoRet
    /\ op = "new"
    /\ pushOnly = TRUE
    /\ mend = NoMend
    /\ list = L_new
    /\ set = S_new(0)
    /\ map = M_new(MAP_MIN_BINS)
    /\ used = {}
    /\ hist = "adding"
    /\ build = "release"
    /\ aborted = FALSE
    /\ other = [made |-> "capacities", initial |-> arr.capacity,
                largest |-> arr.capacity, cleared |-> FALSE]
    /\ fixed = NoFixed
    /\ under = "DynamicArray"

notCapacity == <<ref, ret, refRet, pushOnly, mend, list, set, map, used,
                 hist, build, aborted, fixed, under>>

\* other after a call that made the array a
Seen(a, clears) ==
    [other EXCEPT
        !.largest = IF a.capacity > @ THEN a.capacity ELSE @,
        !.cleared = @ \/ clears]

\* the value of every element
Element == Unspecified

CapacityPush ==
    /\ arr.size < MaxSize
    /\ arr' = DA_push(arr, Element)
    /\ other' = Seen(arr', FALSE)
    /\ op' = "push"
    /\ UNCHANGED notCapacity

CapacityPushFront ==
    /\ arr.size < MaxSize
    /\ arr' = DA_pushFront(arr, Element)
    /\ other' = Seen(arr', FALSE)
    /\ op' = "pushFront"
    /\ UNCHANGED notCapacity

CapacityInsertAt ==
    /\ arr.size < MaxSize
    /\ \E index \in InsertIdx(arr.size) :
        arr' = DA_insertAt(arr, index, Element)
    /\ other' = Seen(arr', FALSE)
    /\ op' = "insertAt"
    /\ UNCHANGED notCapacity

CapacityPop ==
    /\ arr.size > 0
    /\ arr' = DA_pop(arr).arr
    /\ other' = Seen(arr', FALSE)
    /\ op' = "pop"
    /\ UNCHANGED notCapacity

CapacityPopFront ==
    /\ arr.size > 0
    /\ arr.first < arr.capacity + MaxSmall
    /\ arr' = DA_popFront(arr).arr
    /\ other' = Seen(arr', FALSE)
    /\ op' = "popFront"
    /\ UNCHANGED notCapacity

CapacityRemoveAt ==
    /\ arr.size > 0
    /\ \E index \in InsertIdx(arr.size - 1) :
        arr' = DA_removeAt(arr, index).arr
    /\ other' = Seen(arr', FALSE)
    /\ op' = "removeAt"
    /\ UNCHANGED notCapacity

CapacityClear ==
    /\ arr' = DA_clear(arr)
    /\ other' = Seen(arr', TRUE)
    /\ op' = "clear"
    /\ UNCHANGED notCapacity

NextCapacity ==
    \/ CapacityPush
    \/ CapacityPushFront
    \/ CapacityInsertAt
    \/ CapacityPop
    \/ CapacityPopFront
    \/ CapacityRemoveAt
    \/ CapacityClear

SpecCapacity ==
    InitCapacity /\ [][NextCapacity]_vars

RECURSIVE IsPowerOfTwo(_)
IsPowerOfTwo(n) ==
    \/ n = 1
    \/ n > 1 /\ n % 2 = 0 /\ IsPowerOfTwo(n \div 2)

RECURSIVE S_probedFrom(_, _, _, _, _)
S_probedFrom(s, value, i, probes, seen) ==
    IF i >= s.binCount THEN Append(seen, i)
    ELSE IF ~S_isBinEmpty(s, i) /\ ~S_doesBinContain(s, i, value)
    THEN S_probedFrom(s, value, S_probe(s, probes + 1), probes + 1,
                      Append(seen, i))
    ELSE Append(seen, i)

S_probedBins(s, value) ==
    S_probedFrom(s, value, S_wrap(s, S_hash(s, value)), 0, <<>>)

\* the loop of Map::findBinForKey.  The bins of the first _binCount probes
\* are all the bins of the table (the sums 1 + 2 + ... + p taken modulo a
\* power of two are all different for p below it): a search that has not
\* stopped by then never stops, and is followed no further.
RECURSIVE M_probedFrom(_, _, _, _, _)
M_probedFrom(m, key, i, probes, seen) ==
    IF probes >= m.binCount THEN Append(seen, i)
    ELSE IF ~M_isBinEmpty(m, i) /\ ~M_doesBinContain(m, i, key)
    THEN M_probedFrom(m, key, M_wrap(m, i + M_probe(m, probes + 1)),
                      probes + 1, Append(seen, i))
    ELSE Append(seen, i)

M_probedBins(m, key) ==
    M_probedFrom(m, key, M_wrap(m, M_hash(m, key)), 0, <<>>)

InitProbe ==
    /\ arr = DA_new
    /\ ref = <<>>
    /\ ret = NoRet
    /\ refRet = NoRet
    /\ op = "new"
    /\ pushOnly = TRUE
    /\ mend = NoMend
    /\ list = L_new
    /\ set = S_new(0)
    /\ map = M_new(MAP_MIN_BINS)
    /\ used = {}
    /\ hist = "adding"
    /\ build = "release"
    /\ aborted = FALSE
    /\ other = [made |-> "search", bins |-> <<>>, start |-> 0,
                binCount |-> MIN_BINS]
    /\ fixed = NoFixed
    /\ under \in {"Set", "Map"}

notProbe == <<arr, ref, ret, refRet, pushOnly, mend, list, used, hist, build,
              aborted, fixed, under>>

\* the search of value in the set s
SetSearch(s, value) ==
    [made |-> "search", bins |-> S_probedBins(s, value),
     start |-> S_wrap(s, S_hash(s, value)), binCount |-> s.binCount]

\* the search of key in the map m
MapSearch(m, key) ==
    [made |-> "search", bins |-> M_probedBins(m, key),
     start |-> M_wrap(m, M_hash(m, key)), binCount |-> m.binCount]

\* add( k ): it searches after it has grown
ProbeSetAdd ==
    /\ under = "Set"
    /\ set.values.size < MaxElems
    /\ \E k \in Keys :
        /\ set' = S_add(set, k)
        /\ other' = SetSearch(IF S_shouldGrow(set) THEN S_grow(set) ELSE set,
                              k)
    /\ op' = "add"
    /\ UNCHANGED map
    /\ UNCHANGED notProbe

\* remove( k ): it searches after it has shrunk
ProbeSetRemove ==
    /\ under = "Set"
    /\ \E k \in Keys :
        /\ set' = S_remove(set, k)
        /\ other' = SetSearch(IF S_shouldShrink(set) THEN S_shrink(set)
                              ELSE set, k)
    /\ op' = "remove"
    /\ UNCHANGED map
    /\ UNCHANGED notProbe

\* has( k )
ProbeSetHas ==
    /\ under = "Set"
    /\ \E k \in Keys :
        other' = SetSearch(set, k)
    /\ op' = "has"
    /\ UNCHANGED <<set, map>>
    /\ UNCHANGED notProbe

\* assign( k, 1 )
ProbeMapAssign ==
    /\ under = "Map"
    /\ map.pairs.size < MaxPairs
    /\ \E k \in Keys :
        /\ map' = M_assign(map, k, 1).map
        /\ other' = MapSearch(IF M_shouldGrow(map) THEN M_grow(map) ELSE map,
                              k)
    /\ op' = "assign"
    /\ UNCHANGED set
    /\ UNCHANGED notProbe

\* remove( k )
ProbeMapRemove ==
    /\ under = "Map"
    /\ \E k \in Keys :
        /\ map' = M_remove(map, k)
        /\ other' = MapSearch(IF M_shouldShrink(map) THEN M_shrink(map)
                              ELSE map, k)
    /\ op' = "remove"
    /\ UNCHANGED set
    /\ UNCHANGED notProbe

\* hasKey( k )
ProbeMapHasKey ==
    /\ under = "Map"
    /\ \E k \in Keys :
        other' = MapSearch(map, k)
    /\ op' = "hasKey"
    /\ UNCHANGED <<set, map>>
    /\ UNCHANGED notProbe

NextProbe ==
    \/ ProbeSetAdd
    \/ ProbeSetRemove
    \/ ProbeSetHas
    \/ ProbeMapAssign
    \/ ProbeMapRemove
    \/ ProbeMapHasKey

SpecProbe ==
    InitProbe /\ [][NextProbe]_vars

\* C31: a search examines the bin wrap( hash ), then the bins 1, 2, 3, ...
\* after it, each taken modulo the number of bins.
C31_ProbingIsLinear ==
    \A j \in 1 .. Len(other.bins) :
        other.bins[j] = (other.start + (j - 1)) % other.binCount

(***************************************************************************)
(* The bins of a Set and of a Map.  A set of 32 bins, a set of 128 bins    *)
(* whose hash function gives the key itself, a map of 32 bins or a map of  *)
(* 128 bins is used with add or assign, remove and clear of the keys 1, 33 *)
(* and 129.  other holds, after a remove that found its key, the bins as   *)
(* remove found them (after it has shrunk) and the index it removed.       *)
(***************************************************************************)
BinKeys == {1, 33, 129}

\* Set( capacity, hashFuncOwn )
S_newOwn(capacity) ==
    [S_new(capacity) EXCEPT !.hashFunc = "hashFuncOwn"]

\* Map::clear()
M_clear(m) ==
    [m EXCEPT !.pairs = DA_clear(m.pairs),
              !.bins = MemoryUtils_set(MAP_BIN_EMPTY, m.binCount),
              !.binsInUse = 0]

NoRemoval == [made |-> "bins", prior |-> <<>>, removed |-> -1]

InitBins ==
    /\ arr = DA_new
    /\ ref = <<>>
    /\ ret = NoRet
    /\ refRet = NoRet
    /\ op = "new"
    /\ pushOnly = TRUE
    /\ mend = NoMend
    /\ list = L_new
    /\ used = {}
    /\ hist = "adding"
    /\ build = "release"
    /\ aborted = FALSE
    /\ other = NoRemoval
    /\ fixed = NoFixed
    /\ \/ /\ under = "Set"
          /\ set \in {S_new(0), S_newOwn(4 * MIN_BINS)}
          /\ map = M_new(MAP_MIN_BINS)
       \/ /\ under = "Map"
          /\ set = S_new(0)
          /\ map \in {M_new(MAP_MIN_BINS), M_new(4 * MAP_MIN_BINS)}

\* the removal of value from the set g, which has shrunk if it had to
SetRemoval(g, value) ==
    IF S_isBinEmpty(g, S_findBinForValue(g, value))
    THEN NoRemoval
    ELSE [made |-> "bins", prior |-> g.bins,
          removed |-> g.bins[S_findBinForValue(g, value)]]

\* the removal of key from the map g, which has shrunk if it had to
MapRemoval(g, key) ==
    IF M_isBinEmpty(g, M_findBinForKey(g, key))
    THEN NoRemoval
    ELSE [made |-> "bins", prior |-> g.bins,
          removed |-> g.bins[M_findBinForKey(g, key)]]

BinsSetAdd ==
    /\ under = "Set"
    /\ set.values.size < MaxElems
    /\ \E k \in BinKeys :
        set' = S_add(set, k)
    /\ op' = "add"
    /\ other' = NoRemoval
    /\ UNCHANGED map
    /\ UNCHANGED notProbe

BinsSetRemove ==
    /\ under = "Set"
    /\ \E k \in BinKeys :
        /\ set' = S_remove(set, k)
        /\ other' = SetRemoval(IF S_shouldShrink(set) THEN S_shrink(set)
                               ELSE set, k)
    /\ op' = "remove"
    /\ UNCHANGED map
    /\ UNCHANGED notProbe

BinsSetClear ==
    /\ under = "Set"
    /\ set' = S_clear(set)
    /\ op' = "clear"
    /\ other' = NoRemoval
    /\ UNCHANGED map
    /\ UNCHANGED notProbe

BinsMapAssign ==
    /\ under = "Map"
    /\ map.pairs.size < MaxPairs
    /\ \E k \in BinKeys, v \in MapValues :
        map' = M_assign(map, k, v).map
    /\ op' = "assign"
    /\ other' = NoRemoval
    /\ UNCHANGED set
    /\ UNCHANGED notProbe

BinsMapRemove ==
    /\ under = "Map"
    /\ \E k \in BinKeys :
        /\ map' = M_remove(map, k)
        /\ other' = MapRemoval(IF M_shouldShrink(map) THEN M_shrink(map)
                               ELSE map, k)
    /\ op' = "remove"
    /\ UNCHANGED set
    /\ UNCHANGED notProbe

BinsMapClear ==
    /\ under = "Map"
    /\ map' = M_clear(map)
    /\ op' = "clear"
    /\ other' = NoRemoval
    /\ UNCHANGED set
    /\ UNCHANGED notProbe

NextBins ==
    \/ BinsSetAdd
    \/ BinsSetRemove
    \/ BinsSetClear
    \/ BinsMapAssign
    \/ BinsMapRemove
    \/ BinsMapClear

SpecBins ==
    InitBins /\ [][NextBins]_vars

\* the bins hold each of the indices 0 .. size - 1 once and nothing else, and
\* binsInUse counts them
BinsAreSound(bins, binsInUse, size, empty) ==
    LET taken == {i \in DOMAIN bins : bins[i] # empty}
    IN  /\ \A i \in taken : bins[i] >= 0 /\ bins[i] < size
        /\ \A i, j \in taken : bins[i] = bins[j] => i = j
        /\ \A e \in 0 .. size - 1 : \E i \in taken : bins[i] = e
        /\ binsInUse = Cardinality(taken)
        /\ binsInUse = size

\* a removal of the entry at index r has taken one from every greater index
BinsAreShifted(bins, prior, r) ==
    \A i \in DOMAIN prior :
        prior[i] > r => bins[i] = prior[i] - 1

\* C32: after any add or assign, remove and clear, with the resizes they
\* make, every bin in use stores an index below the size, no two bins store
\* the same index, every index is stored in a bin, and _binsInUse is both the
\* number of bins in use and the size; a remove of the entry at index r
\* leaves every bin that stored a greater index with that index minus one.
C32_BinTableInvariant ==
    /\ under = "Set" =>
        /\ BinsAreSound(set.bins, set.binsInUse, set.values.size, BIN_EMPTY)
        /\ other.removed # -1 =>
               BinsAreShifted(set.bins, other.prior, other.removed)
    /\ under = "Map" =>
        /\ BinsAreSound(map.bins, map.binsInUse, map.pairs.size,
                        MAP_BIN_EMPTY)
        /\ other.removed # -1 =>
               BinsAreShifted(map.bins, other.prior, other.removed)

(***************************************************************************)
(* The resizes of a Set and of a Map.  A table of 32 bins is filled with   *)
(* the keys 1 .. 22, one key below the load at which add grows, and a      *)
(* table of 64 bins with the keys 1 .. 20, one key above the load at which *)
(* remove shrinks; the table is then used with add or assign and remove.   *)
(* other holds what the last call found and what its resize, if it made    *)
(* one, left: the number of bins and the number of entries the call found, *)
(* whether every entry was found by has() or hasKey() after the resize,    *)
(* and whether size() was the same, with the number of calls made on the   *)
(* filled table.                                                           *)
(***************************************************************************)
\* the greatest number of entries with which add does not grow 32 bins
NearGrow == (GROW_THRESHOLD * MIN_BINS - 1) \div 100

\* the smallest number of entries with which remove does not shrink 64 bins
NearShrink == (SHRINK_THRESHOLD * 2 * MIN_BINS) \div 100 + 1

\* the number of keys a table of binCount bins is filled with
FillOf(binCount) == IF binCount = MIN_BINS THEN NearGrow ELSE NearShrink

ResizeKeys == {1, 33, NearGrow + 1, NearGrow + 2}

\* the number of calls made on a filled table
MaxCalls == 4

NoResizeYet ==
    [made |-> "resize", resized |-> "none", was |-> MIN_BINS, stored |-> 0,
     found |-> TRUE, sizeKept |-> TRUE, calls |-> 0]

InitResize ==
    /\ arr = DA_new
    /\ ref = <<>>
    /\ ret = NoRet
    /\ refRet = NoRet
    /\ op = "new"
    /\ pushOnly = TRUE
    /\ mend = NoMend
    /\ list = L_new
    /\ used = {}
    /\ hist = "filling"
    /\ build = "release"
    /\ aborted = FALSE
    /\ other = NoResizeYet
    /\ fixed = NoFixed
    /\ \/ /\ under = "Set"
          /\ set \in {S_new(0), S_new(2 * MIN_BINS)}
          /\ map = M_new(MAP_MIN_BINS)
       \/ /\ under = "Map"
          /\ set = S_new(0)
          /\ map \in {M_new(MAP_MIN_BINS), M_new(2 * MAP_MIN_BINS)}

notResize == <<arr, ref, ret, refRet, pushOnly, mend, list, used, build,
               aborted, fixed, under>>

\* whether the table of binCount bins with size entries is filled
FilledWith(size, binCount) ==
    IF size + 1 = FillOf(binCount) THEN "filled" ELSE "filling"

\* what the resize of the set s to g left
SetResized(s, g, how) ==
    [made |-> "resize", resized |-> how, was |-> s.binCount,
     stored |-> S_size(s),
     found |-> \A i \in 0 .. S_size(s) - 1 : S_has(g, DA_get(s.values, i)),
     sizeKept |-> S_size(g) = S_size(s),
     calls |-> IF hist = "filled" THEN other.calls + 1 ELSE 0]

\* what the resize of the map m to g left
MapResized(m, g, how) ==
    [made |-> "resize", resized |-> how, was |-> m.binCount,
     stored |-> M_size(m),
     found |-> \A i \in 0 .. M_size(m) - 1 :
                   M_hasKey(g, DA_get(m.pairs, i).key),
     sizeKept |-> M_size(g) = M_size(m),
     calls |-> IF hist = "filled" THEN other.calls + 1 ELSE 0]

\* add( size() + 1 ) while the set is filled
ResizeSetFill ==
    /\ under = "Set"
    /\ hist = "filling"
    /\ set' = S_add(set, S_size(set) + 1)
    /\ other' = IF S_shouldGrow(set) THEN SetResized(set, S_grow(set), "grow")
                ELSE SetResized(set, set, "none")
    /\ hist' = FilledWith(S_size(set), set.binCount)
    /\ op' = "add"
    /\ UNCHANGED map
    /\ UNCHANGED notResize

\* assign( size() + 1, 1 ) while the map is filled
ResizeMapFill ==
    /\ under = "Map"
    /\ hist = "filling"
    /\ map' = M_assign(map, M_size(map) + 1, 1).map
    /\ other' = IF M_shouldGrow(map) THEN MapResized(map, M_grow(map), "grow")
                ELSE MapResized(map, map, "none")
    /\ hist' = FilledWith(M_size(map), map.binCount)
    /\ op' = "assign"
    /\ UNCHANGED set
    /\ UNCHANGED notResize

ResizeSetAdd ==
    /\ under = "Set"
    /\ hist = "filled"
    /\ other.calls < MaxCalls
    /\ \E k \in ResizeKeys :
        set' = S_add(set, k)
    /\ other' = IF S_shouldGrow(set) THEN SetResized(set, S_grow(set), "grow")
                ELSE SetResized(set, set, "none")
    /\ op' = "add"
    /\ UNCHANGED map
    /\ UNCHANGED <<hist, notResize>>

ResizeSetRemove ==
    /\ under = "Set"
    /\ hist = "filled"
    /\ other.calls < MaxCalls
    /\ \E k \in ResizeKeys :
        set' = S_remove(set, k)
    /\ other' = IF S_shouldShrink(set)
                THEN SetResized(set, S_shrink(set), "shrink")
                ELSE SetResized(set, set, "none")
    /\ op' = "remove"
    /\ UNCHANGED map
    /\ UNCHANGED <<hist, notResize>>

ResizeMapAssign ==
    /\ under = "Map"
    /\ hist = "filled"
    /\ other.calls < MaxCalls
    /\ \E k \in ResizeKeys :
        map' = M_assign(map, k, 1).map
    /\ other' = IF M_shouldGrow(map) THEN MapResized(map, M_grow(map), "grow")
                ELSE MapResized(map, map, "none")
    /\ op' = "assign"
    /\ UNCHANGED set
    /\ UNCHANGED <<hist, notResize>>

ResizeMapRemove ==
    /\ under = "Map"
    /\ hist = "filled"
    /\ other.calls < MaxCalls
    /\ \E k \in ResizeKeys :
        map' = M_remove(map, k)
    /\ other' = IF M_shouldShrink(map)
                THEN MapResized(map, M_shrink(map), "shrink")
                ELSE MapResized(map, map, "none")
    /\ op' = "remove"
    /\ UNCHANGED set
    /\ UNCHANGED <<hist, notResize>>

NextResize ==
    \/ ResizeSetFill
    \/ ResizeMapFill
    \/ ResizeSetAdd
    \/ ResizeSetRemove
    \/ ResizeMapAssign
    \/ ResizeMapRemove

SpecResize ==
    InitResize /\ [][NextResize]_vars

\* the number of bins of the table in use
BinCountNow == IF under = "Set" THEN set.binCount ELSE map.binCount

\* C33: an add or assign that finds the load at or above 70% doubles the
\* number of bins, a remove that finds it at or below 30% with more than 32
\* bins halves it, and after such a resize every entry that was stored is
\* found by has() or hasKey() and size() is what it was.
C33_ResizeKeepsMembers ==
    /\ op \in {"add", "assign"} /\ other.stored * 100 >= 70 * other.was =>
           other.resized = "grow" /\ BinCountNow = 2 * other.was
    /\ op = "remove" /\ other.stored * 100 <= 30 * other.was
                     /\ other.was > 32 =>
           other.resized = "shrink" /\ 2 * BinCountNow = other.was
    /\ other.resized # "none" => other.found /\ other.sizeKept

\* whether the key k is among the entries of the table in use
HoldsKey(k) ==
    IF under = "Set"
    THEN \E i \in 0 .. S_size(set) - 1 : DA_get(set.values, i) = k
    ELSE \E i \in 0 .. M_size(map) - 1 : DA_get(map.pairs, i).key = k

\* an add or assign has doubled 32 bins that held the keys 1 and 33, which
\* start at the same bin, and all the entries were found afterwards
C33_Witness ==
    /\ op \in {"add", "assign"}
    /\ other.resized = "grow"
    /\ other.was = MIN_BINS
    /\ other.stored > NearGrow
    /\ other.found
    /\ BinCountNow = 2 * MIN_BINS
    /\ HoldsKey(1)
    /\ HoldsKey(33)

(***************************************************************************)
(* The order of an iteration over a Set and over a Map.  A set or a map   *)
(* of 32 or of 64 bins is used with add or assign and remove of the keys  *)
(* 1, 2 and 33, whose hash codes differ;                                   *)
(* ref is the sequence of the keys in the order of their insertion, the    *)
(* removed keys dropped.  The iteration is the loop                        *)
(*   for ( iter = cbegin(); iter != cend(); ++iter ) *iter                 *)
(***************************************************************************)
\* Set::cbegin(), Map::cbegin()
ConstIterator_cbegin == [iterIndex |-> 0]

\* Set::cend()
S_cend(s) == [iterIndex |-> s.values.size]

\* Map::cend()
M_cend(m) == [iterIndex |-> m.pairs.size]

\* ConstIterator::operator++()
ConstIterator_inc(iter) == [iterIndex |-> iter.iterIndex + 1]

\* ConstIterator::operator*()
ConstIterator_deref(values, iter) == DA_get(values, iter.iterIndex)

\* the values the loop gives from iter on
RECURSIVE ConstIterator_loop(_, _, _, _)
ConstIterator_loop(values, iter, cend, seen) ==
    IF iter # cend
    THEN ConstIterator_loop(values, ConstIterator_inc(iter), cend,
                            Append(seen, ConstIterator_deref(values, iter)))
    ELSE seen

S_iterated(s) ==
    ConstIterator_loop(s.values, ConstIterator_cbegin, S_cend(s), <<>>)

M_iterated(m) ==
    ConstIterator_loop(m.pairs, ConstIterator_cbegin, M_cend(m), <<>>)

\* the sequence q without the key k
Dropped(q, k) == SelectSeq(q, LAMBDA x : x # k)

\* the sequence q with the key k inserted, if it is not in it
Inserted(q, k) ==
    IF \E i \in 1 .. Len(q) : q[i] = k THEN q ELSE Append(q, k)

InitOrder ==
    /\ arr = DA_new
    /\ ref = <<>>
    /\ ret = NoRet
    /\ refRet = NoRet
    /\ op = "new"
    /\ pushOnly = TRUE
    /\ mend = NoMend
    /\ list = L_new
    /\ used = {}
    /\ hist = "adding"
    /\ build = "release"
    /\ aborted = FALSE
    /\ other = NoOther
    /\ fixed = NoFixed
    /\ \/ /\ under = "Set"
          /\ set \in {S_new(0), S_new(2 * MIN_BINS)}
          /\ map = M_new(MAP_MIN_BINS)
       \/ /\ under = "Map"
          /\ set = S_new(0)
          /\ map \in {M_new(MAP_MIN_BINS), M_new(2 * MAP_MIN_BINS)}

notOrder == <<arr, ret, refRet, pushOnly, mend, list, hist, build, aborted,
              other, fixed, under>>

OrderSetAdd ==
    /\ under = "Set"
    /\ set.values.size < MaxElems
    /\ \E k \in PlainKeys :
        /\ set' = S_add(set, k)
        /\ ref' = Inserted(ref, k)
        /\ used' = used \cup {k}
    /\ op' = "add"
    /\ UNCHANGED map
    /\ UNCHANGED notOrder

OrderSetRemove ==
    /\ under = "Set"
    /\ \E k \in PlainKeys :
        /\ set' = S_remove(set, k)
        /\ ref' = Dropped(ref, k)
        /\ used' = used \cup {k}
    /\ op' = "remove"
    /\ UNCHANGED map
    /\ UNCHANGED notOrder

OrderMapAssign ==
    /\ under = "Map"
    /\ map.pairs.size < MaxPairs
    /\ \E k \in PlainKeys :
        /\ map' = M_assign(map, k, 1).map
        /\ ref' = Inserted(ref, k)
        /\ used' = used \cup {k}
    /\ op' = "assign"
    /\ UNCHANGED set
    /\ UNCHANGED notOrder

OrderMapRemove ==
    /\ under = "Map"
    /\ \E k \in PlainKeys :
        /\ map' = M_remove(map, k)
        /\ ref' = Dropped(ref, k)
        /\ used' = used \cup {k}
    /\ op' = "remove"
    /\ UNCHANGED set
    /\ UNCHANGED notOrder

NextOrder ==
    \/ OrderSetAdd
    \/ OrderSetRemove
    \/ OrderMapAssign
    \/ OrderMapRemove

SpecOrder ==
    InitOrder /\ [][NextOrder]_vars

\* the keys an iteration gives
IteratedKeys ==
    IF under = "Set" THEN S_iterated(set)
    ELSE [i \in 1 .. Len(M_iterated(map)) |-> M_iterated(map)[i].key]

\* C34: an iteration from cbegin() to cend() gives size() entries: the keys
\* in the order of their insertion, the removed keys dropped.
C34_IterationFollowsInsertion ==
    /\ Len(IteratedKeys) = (IF under = "Set" THEN S_size(set)
                            ELSE M_size(map))
    /\ IteratedKeys = ref

(***************************************************************************)
(* getNodePos of the list.  The list is used with insertAt and removeAt    *)
(* at every index, and getNodePos( index ) is called with every index      *)
(* below the size; other holds the index, the slot returned, and the       *)
(* direction and the number of the link steps taken.  hist is "adding"     *)
(* while nothing was removed, "removed" after one removal and "other"      *)
(* after two, which is as many as are made.                                *)
(***************************************************************************)
\* the direction and the number of steps of the loop of getNodePos
L_getNodePosSteps(l, index) ==
    IF index <= l.count \div 2
    THEN [way |-> "next", steps |-> index]
    ELSE [way |-> "prev", steps |-> l.count - index]

\* getNodePos( index ), index < _count
ListGetNodePos ==
    /\ list.count > 0
    /\ \E index \in 0 .. list.count - 1 :
        other' = [made |-> "getNodePos", index |-> index,
                  pos |-> L_getNodePos(list, index),
                  walk |-> L_getNodePosSteps(list, index)]
    /\ op' = "getNodePos"
    /\ UNCHANGED <<arr, ref, ret, refRet, pushOnly, mend, list, set, map,
                   used, hist, build, aborted, fixed, under>>

\* the greatest size of a list from which nothing was removed
MaxIntact == 5

notNodePos == <<arr, ref, ret, refRet, pushOnly, mend, set, map, used, build,
                aborted, fixed, under, other>>

\* insertAt( index, 1 ); push( 1 ) is insertAt( _count, 1 ) and
\* pushFront( 1 ) is insertAt( 0, 1 )
NodePosInsertAt ==
    /\ list.count < (IF hist = "adding" THEN MaxIntact ELSE MaxCount)
    /\ \E index \in 0 .. list.count :
        list' = L_insertAt(list, index, 1)
    /\ op' = "insertAt"
    /\ UNCHANGED hist
    /\ UNCHANGED notNodePos

\* removeAt( index ); pop() is removeAt( _count - 1 ) and popFront() is
\* removeAt( 0 )
NodePosRemoveAt ==
    /\ list.count > 0
    /\ hist # "other"
    /\ \E index \in 0 .. list.count - 1 :
        list' = L_removeAt(list, index).list
    /\ op' = "removeAt"
    /\ hist' = (IF hist = "adding" THEN "removed" ELSE "other")
    /\ UNCHANGED notNodePos

NextNodePos ==
    \/ NodePosInsertAt
    \/ NodePosRemoveAt
    \/ ListGetNodePos

SpecNodePos ==
    Init /\ [][NextNodePos]_vars

\* C35: getNodePos( i ) for i < size gives the slot of the i-th node of the
\* ring, counted along next from _first; it walks along next when
\* i <= size / 2 and along prev otherwise, and takes at most size / 2 steps.
C35_GetNodePosFindsNode ==
    op = "getNodePos" =>
        /\ other.pos = L_walkNext(list, list.first, other.index)
        /\ other.walk.way = (IF 2 * other.index <= list.count THEN "next"
                             ELSE "prev")
        /\ 2 * other.walk.steps <= list.count

(***************************************************************************)
(* The resizes of the list.  A list of 32 or of 64 nodes is used with      *)
(* push of the values 1, 2, 3, ... in turn and with a removal at           *)
(* any index.  ref is the sequence of the values the list should hold.     *)
(* other holds what the last call found and what its resize, if it made    *)
(* one, left before the call went on: the size and the values along next   *)
(* from _first that the resize found, and the list the resize left; and    *)
(* the number of pushes and of removals made.                              *)
(***************************************************************************)
\* the values of the nodes of l along next from _first
L_ring(l) ==
    [i \in 1 .. l.count |-> l.nodes[L_walkNext(l, l.first, i - 1)].value]

NoListResize ==
    [made |-> "resize", how |-> "none", n |-> 0, found |-> <<>>,
     left |-> L_new, pushed |-> 0, removed |-> 0]

\* what the call that resized l to g, or did not resize, records
ListResized(l, g, how, pushed, removed) ==
    [made |-> "resize", how |-> how, n |-> l.count, found |-> L_ring(l),
     left |-> g, pushed |-> pushed, removed |-> removed]

\* the number of removals made
MaxRemovals == 1

InitListResize ==
    /\ arr = DA_new
    /\ ref = <<>>
    /\ ret = NoRet
    /\ refRet = NoRet
    /\ op = "new"
    /\ pushOnly = TRUE
    /\ mend = NoMend
    /\ list \in {L_new, L_newCap(2 * LIST_MIN_CAPACITY)}
    /\ set = S_new(0)
    /\ map = M_new(MAP_MIN_BINS)
    /\ used = {}
    /\ hist = "adding"
    /\ build = "release"
    /\ aborted = FALSE
    /\ other = NoListResize
    /\ fixed = NoFixed
    /\ under = "List"

notListResize == <<arr, ret, refRet, pushOnly, mend, set, map, used, hist,
                   build, aborted, fixed, under>>

\* push( pushed + 1 )
ListResizePush ==
    /\ list.count <= LIST_MIN_CAPACITY
    /\ list' = L_push(list, other.pushed + 1)
    /\ ref' = Append(ref, other.pushed + 1)
    /\ other' = IF L_shouldGrow(list)
                THEN ListResized(list, L_grow(list), "grow",
                                 other.pushed + 1, other.removed)
                ELSE ListResized(list, L_new, "none",
                                 other.pushed + 1, other.removed)
    /\ op' = "push"
    /\ UNCHANGED notListResize

\* removeAt( index )
ListResizeRemoveAt ==
    /\ list.count > 0
    /\ other.removed < MaxRemovals
    /\ \E index \in 0 .. list.count - 1 :
        /\ list' = L_removeAt(list, index).list
        /\ ref' = SeqRemove(ref, index)
    /\ other' = IF L_shouldShrink(list)
                THEN ListResized(list, L_shrink(list), "shrink",
                                 other.pushed, other.removed + 1)
                ELSE ListResized(list, L_new, "none",
                                 other.pushed, other.removed + 1)
    /\ op' = "removeAt"
    /\ UNCHANGED notListResize

NextListResize ==
    \/ ListResizePush
    \/ ListResizeRemoveAt

SpecListResize ==
    InitListResize /\ [][NextListResize]_vars

\* the list g holds the n values of found in its first n nodes, linked in a
\* ring in that order, with no free node
IsCompacted(g, n, found) ==
    /\ \A i \in 0 .. n - 1 :
        /\ g.nodes[i].value = found[i + 1]
        /\ g.nodes[i].next = (i + 1) % n
        /\ g.nodes[i].prev = (i + n - 1) % n
    /\ g.first = 0
    /\ g.freeCount = 0

\* C36: a resize of a list of n >= 1 nodes leaves the former i-th element in
\* node i, with next (i + 1) mod n and prev (i - 1) mod n, _first 0 and no
\* free node, and the insertion or removal that made it then gives the list
\* it should.
C36_ResizeCompacts ==
    other.how # "none" /\ other.n >= 1 =>
        /\ IsCompacted(other.left, other.n, other.found)
        /\ L_ring(list) = ref

(***************************************************************************)
(* The end of a search.  In the states of SpecResize, tables filled up to  *)
(* the load at which they grow, a search is made for each of the           *)
(* arguments below, which start at bins in use, at free bins and at bins   *)
(* other keys were moved to.                                               *)
(***************************************************************************)
ProbeArgs == {0, 1, 2, NearGrow, NearGrow + 1, MIN_BINS - 1, MIN_BINS,
              MIN_BINS + 1, 2 * MIN_BINS - 1, 2 * MIN_BINS + 1}

\* the bins a search for k examines in the table in use
ProbedNow(k) ==
    IF under = "Set" THEN S_probedBins(set, k) ELSE M_probedBins(map, k)

-----------------------------------------------------------------------------
\* Allocation balance of the containers that take an injected allocator:
\* every get( n ) and release( p, n ) a container makes on its allocator is
\* followed in a ledger. An object is kept as the buffer it holds, its size
\* and the count it will release the buffer with; `under` says which
\* container the two objects a and b are. For a Set the buffer is the bin
\* table and the allocator is the bin allocator.

Containers == {"DynamicArray", "List", "Set"}

Objects == {"a", "b"}

NoContainer == [alive |-> "none", p |-> nullptr, size |-> 0, capacity |-> 0]

\* the ledger of an allocator nothing was taken from
Ledger_new == [count |-> 0, live |-> {}, wrong |-> FALSE]

\* the pointer the next get returns
Ledger_fresh(w) ==
    CHOOSE p \in 1 .. Cardinality(w.live) + 1 :
        /\ \A b \in w.live : b.p # p
        /\ \A q \in 1 .. p - 1 : \E b \in w.live : b.p = q

\* CountingAllocator::get( count ): _count += count; return new T[count]
Ledger_get(w, count) ==
    [w EXCEPT !.count = @ + count,
              !.live = @ \union {[p |-> Ledger_fresh(w), n |-> count]}]

\* CountingAllocator::release( pointer, count ): _count -= count; delete[]
Ledger_release(w, pointer, count) ==
    [w EXCEPT !.count = @ - count,
              !.live = {b \in @ : b.p # pointer},
              !.wrong = @ \/ ~(\E b \in w.live : b.p = pointer /\ b.n = count)]

\* the constructors taking an allocator: the buffer of the least capacity
Balance_construct(w) ==
    [w |-> Ledger_get(w, MIN_CAPACITY),
     dst |-> [alive |-> "alive", p |-> Ledger_fresh(w), size |-> 0,
              capacity |-> MIN_CAPACITY]]

\* DynamicArray::resize and List::resize get the new buffer and then release
\* the old one with the old capacity; Set::resize releases the bin table
\* with the new size and then gets the new table
Balance_resize(w, o, newSize) ==
    IF under = "Set"
    THEN LET r == Ledger_release(w, o.p, newSize)
         IN  [w |-> Ledger_get(r, newSize),
              dst |-> [o EXCEPT !.p = Ledger_fresh(r), !.capacity = newSize]]
    ELSE LET g == Ledger_get(w, newSize)
         IN  [w |-> Ledger_release(g, o.p, o.capacity),
              dst |-> [o EXCEPT !.p = Ledger_fresh(w), !.capacity = newSize]]

Balance_shouldGrow(o) ==
    IF under = "Set"
    THEN S_shouldGrow([binsInUse |-> o.size, binCount |-> o.capacity])
    ELSE DA_shouldGrow(o)

Balance_shouldShrink(o) ==
    IF under = "Set"
    THEN S_shouldShrink([binsInUse |-> o.size, binCount |-> o.capacity])
    ELSE DA_shouldShrink(o)

\* push / insert / add of an element the container does not hold
Balance_push(w, o) ==
    LET g == IF Balance_shouldGrow(o)
             THEN Balance_resize(w, o, o.capacity * 2)
             ELSE [w |-> w, dst |-> o]
    IN  [g EXCEPT !.dst.size = @ + 1]

\* pop / removeAt / remove of an element the container holds
Balance_pop(w, o) ==
    LET g == IF Balance_shouldShrink(o)
             THEN Balance_resize(w, o, o.capacity \div 2)
             ELSE [w |-> w, dst |-> o]
    IN  [g EXCEPT !.dst.size = @ - 1]

RECURSIVE L_capacityFor(_, _)
\* while ( _capacity < _count ) _capacity <<= 1, for the counts of the model
L_capacityFor(capacity, count) ==
    IF capacity < count THEN L_capacityFor(capacity * 2, count) ELSE capacity

\* the buffer a copy or a move of src into a destination without buffer gets
Balance_taken(w, src) ==
    IF under = "List"
    THEN LET c == L_capacityFor(LIST_MIN_CAPACITY, src.size)
         IN  [w |-> Ledger_get(w, c),
              dst |-> [alive |-> "alive", p |-> Ledger_fresh(w),
                       size |-> src.size, capacity |-> c]]
    ELSE IF under = "Set" \/ src.p # nullptr
    THEN [w |-> Ledger_get(w, src.capacity),
          dst |-> [alive |-> "alive", p |-> Ledger_fresh(w),
                   size |-> src.size, capacity |-> src.capacity]]
    ELSE [w |-> w, dst |-> [src EXCEPT !.alive = "alive"]]

\* the copy constructors
Balance_copyConstruct(w, src) ==
    LET t == Balance_taken(w, src)
    IN  [w |-> t.w, dst |-> t.dst, src |-> src]

MovedFrom == [alive |-> "alive", p |-> nullptr, size |-> 0, capacity |-> 0]

\* the move constructors: DynamicArray gets a buffer of its own and sets the
\* source's pointer to nullptr; List gets a buffer and releases the source's;
\* Set takes the source's bin table
Balance_moveConstruct(w, src) ==
    IF under = "Set"
    THEN [w |-> w, dst |-> src, src |-> MovedFrom]
    ELSE LET t == Balance_taken(w, src)
         IN  [w |-> IF under = "List" /\ src.p # nullptr
                    THEN Ledger_release(t.w, src.p, src.capacity)
                    ELSE t.w,
              dst |-> t.dst, src |-> MovedFrom]

\* the destructors, and the release every assignment but DynamicArray's move
\* assignment starts with
Balance_drop(w, o) ==
    IF o.p # nullptr THEN Ledger_release(w, o.p, o.capacity) ELSE w

\* operator=( const& ): Set gets the new bin table with the count it had
\* before and then takes the source's count
Balance_copyAssign(w, dst, src) ==
    LET r == Balance_drop(w, dst)
    IN  IF under = "Set"
        THEN [w |-> Ledger_get(r, dst.capacity),
              dst |-> [src EXCEPT !.p = Ledger_fresh(r)], src |-> src]
        ELSE Balance_copyConstruct(r, src)

\* operator=( && ): DynamicArray sets _values to nullptr without a release
Balance_moveAssign(w, dst, src) ==
    IF under = "DynamicArray"
    THEN Balance_moveConstruct(w, src)
    ELSE Balance_moveConstruct(Balance_drop(w, dst), src)

Balance_destroy(w, o) ==
    [w |-> Balance_drop(w, o), dst |-> [NoContainer EXCEPT !.alive = "destroyed"]]

\* the largest size an object is pushed to: one past the growth of each
Balance_most == IF under = "Set" THEN NearGrow + 2 ELSE MIN_CAPACITY + 1

InitBalance ==
    /\ arr = DA_new
    /\ ref = <<>>
    /\ ret = NoRet
    /\ refRet = NoRet
    /\ op = "new"
    /\ pushOnly = TRUE
    /\ mend = NoMend
    /\ list = L_new
    /\ set = S_new(0)
    /\ map = M_new(MAP_MIN_BINS)
    /\ used = {}
    /\ hist = "adding"
    /\ build = "release"
    /\ aborted = FALSE
    /\ fixed = NoFixed
    /\ under \in Containers
    /\ other = [made |-> "balance", w |-> Ledger_new,
                objs |-> [x \in Objects |-> NoContainer]]

notBalance ==
    <<arr, ref, ret, refRet, pushOnly, mend, list, set, map, used, hist,
      build, aborted, fixed, under>>

\* the buffers that may be outstanding at once
MaxBuffers == 3

\* the ledger is followed up to the first release that does not match
Balanced(r, x, how) ==
    /\ ~other.w.wrong
    /\ other.w.count >= 0
    /\ Cardinality(other.w.live) <= MaxBuffers
    /\ other' = [other EXCEPT !.w = r.w, !.objs[x] = r.dst]
    /\ op' = how
    /\ UNCHANGED notBalance

BalancedBoth(r, x, y, how) ==
    /\ ~other.w.wrong
    /\ other.w.count >= 0
    /\ Cardinality(other.w.live) <= MaxBuffers
    /\ other' = [other EXCEPT !.w = r.w, !.objs[x] = r.dst, !.objs[y] = r.src]
    /\ op' = how
    /\ UNCHANGED notBalance

BalanceConstruct ==
    \E x \in Objects :
        /\ other.objs[x].alive = "none"
        /\ Balanced(Balance_construct(other.w), x, "construct")

BalancePush ==
    \E x \in Objects :
        /\ other.objs[x].alive = "alive"
        /\ other.objs[x].p # nullptr
        /\ other.objs[x].size < Balance_most
        /\ Balanced(Balance_push(other.w, other.objs[x]), x, "push")

BalancePop ==
    \E x \in Objects :
        /\ other.objs[x].alive = "alive"
        /\ other.objs[x].p # nullptr
        /\ other.objs[x].size > 0
        /\ Balanced(Balance_pop(other.w, other.objs[x]), x, "pop")

BalanceCopyConstruct ==
    \E x \in Objects, y \in Objects :
        /\ x # y
        /\ other.objs[x].alive = "none"
        /\ other.objs[y].alive = "alive"
        /\ other.objs[y].p # nullptr
        /\ BalancedBoth(Balance_copyConstruct(other.w, other.objs[y]), x, y,
                        "copyConstruct")

BalanceMoveConstruct ==
    \E x \in Objects, y \in Objects :
        /\ x # y
        /\ other.objs[x].alive = "none"
        /\ other.objs[y].alive = "alive"
        /\ other.objs[y].p # nullptr
        /\ BalancedBoth(Balance_moveConstruct(other.w, other.objs[y]), x, y,
                        "moveConstruct")

BalanceCopyAssign ==
    \E x \in Objects, y \in Objects :
        /\ x # y
        /\ other.objs[x].alive = "alive"
        /\ under = "Set" => other.objs[x].p # nullptr
        /\ other.objs[y].alive = "alive"
        /\ other.objs[y].p # nullptr
        /\ BalancedBoth(Balance_copyAssign(other.w, other.objs[x],
                                           other.objs[y]), x, y, "copyAssign")

BalanceMoveAssign ==
    \E x \in Objects, y \in Objects :
        /\ x # y
        /\ other.objs[x].alive = "alive"
        /\ other.objs[y].alive = "alive"
        /\ other.objs[y].p # nullptr
        /\ BalancedBoth(Balance_moveAssign(other.w, other.objs[x],
                                           other.objs[y]), x, y, "moveAssign")

BalanceDestroy ==
    \E x \in Objects :
        /\ other.objs[x].alive = "alive"
        /\ Balanced(Balance_destroy(other.w, other.objs[x]), x, "destroy")

NextBalance ==
    \/ BalanceConstruct
    \/ BalancePush
    \/ BalancePop
    \/ BalanceCopyConstruct
    \/ BalanceMoveConstruct
    \/ BalanceCopyAssign
    \/ BalanceMoveAssign
    \/ BalanceDestroy

SpecBalance == InitBalance /\ [][NextBalance]_vars

AllDestroyed ==
    /\ \E x \in Objects : other.objs[x].alive = "destroyed"
    /\ \A x \in Objects : other.objs[x].alive # "alive"

\* C38: every buffer a container gets with get( n ) is released once and
\* with the same count n, the allocator's outstanding count never goes below
\* zero, and it is zero, with no buffer left, once every container that used
\* the allocator is destroyed
C38_AllocationBalanced ==
    other.made = "balance" =>
        /\ ~other.w.wrong
        /\ other.w.count >= 0
        /\ AllDestroyed => other.w.count = 0 /\ other.w.live = {}

\* the same for the List alone
C38_ListBalanced ==
    (other.made = "balance" /\ under = "List") => C38_AllocationBalanced

-----------------------------------------------------------------------------
\* StackGuard: a guard is the pointer it guards and the count it will
\* release it with. The two guards a and b take their allocations from one
\* allocator, whose gets and releases are followed in the ledger.

\* the largest count a guard is made with
MaxGuarded == 4

GuardCounts == 1 .. MaxGuarded

NoGuard == [alive |-> "none", guarded |-> nullptr, count |-> 0]

\* StackGuard()
SG_new == [alive |-> "alive", guarded |-> nullptr, count |-> 0]

\* StackGuard( alloc, guarded, count )
SG_guarding(guarded, count) ==
    [alive |-> "alive", guarded |-> guarded, count |-> count]

\* StackGuard( StackGuard&& guard ): the last statement is _count = 0, on
\* the new guard and not on the source
SG_moveConstruct(guard) ==
    [dst |-> [alive |-> "alive", guarded |-> guard.guarded, count |-> 0],
     src |-> [guard EXCEPT !.guarded = nullptr]]

\* operator=( StackGuard&& guard )
SG_moveAssign(g, guard) ==
    [dst |-> [g EXCEPT !.guarded = guard.guarded, !.count = guard.count],
     src |-> [guard EXCEPT !.guarded = nullptr, !.count = 0]]

\* the asserts of operator=( StackGuard&& ) fail
SG_moveAssignAsserts(g) ==
    \/ ~(g.guarded = nullptr)
    \/ ~(g.count <= 0)

\* the assert of ~StackGuard fails
SG_destroyAsserts(g) ==
    IF g.guarded = nullptr THEN ~(g.count = 0) ELSE ~(g.count > 0)

\* ~StackGuard(): what it does to the allocator
SG_destroy(w, g) ==
    IF g.guarded = nullptr THEN w ELSE Ledger_release(w, g.guarded, g.count)

NoMove == [dst |-> "none", src |-> "none", guarded |-> nullptr, count |-> 0]

InitGuard ==
    /\ arr = DA_new
    /\ ref = <<>>
    /\ ret = NoRet
    /\ refRet = NoRet
    /\ op = "new"
    /\ pushOnly = TRUE
    /\ mend = NoMend
    /\ list = L_new
    /\ set = S_new(0)
    /\ map = M_new(MAP_MIN_BINS)
    /\ used = {}
    /\ hist = "adding"
    /\ build = "release"
    /\ aborted = FALSE
    /\ fixed = NoFixed
    /\ under = "StackGuard"
    /\ other = [made |-> "guard", w |-> Ledger_new,
                objs |-> [x \in Objects |-> NoGuard],
                asserted |-> FALSE, moved |-> NoMove]

\* an action of the guards: the run is followed up to the first assert that
\* fails and the first release that does not match its get
Guarded(w, objs, asserts, moved, how) ==
    /\ ~other.asserted
    /\ ~other.w.wrong
    /\ other' = [other EXCEPT !.w = w, !.objs = objs, !.asserted = asserts,
                              !.moved = moved]
    /\ op' = how
    /\ UNCHANGED notBalance

GuardNew ==
    \E x \in Objects :
        /\ other.objs[x].alive = "none"
        /\ Guarded(other.w, [other.objs EXCEPT ![x] = SG_new], FALSE, NoMove,
                   "new")

GuardGet ==
    \E x \in Objects, n \in GuardCounts :
        /\ other.objs[x].alive = "none"
        /\ Guarded(Ledger_get(other.w, n),
                   [other.objs EXCEPT
                       ![x] = SG_guarding(Ledger_fresh(other.w), n)],
                   FALSE, NoMove, "get")

GuardMoveConstruct ==
    \E x \in Objects, y \in Objects :
        /\ x # y
        /\ other.objs[x].alive = "none"
        /\ other.objs[y].alive = "alive"
        /\ LET r == SG_moveConstruct(other.objs[y])
           IN  Guarded(other.w,
                       [other.objs EXCEPT ![x] = r.dst, ![y] = r.src], FALSE,
                       [dst |-> x, src |-> y,
                        guarded |-> other.objs[y].guarded,
                        count |-> other.objs[y].count],
                       "moveConstruct")

\* the documented precondition: the destination guards nothing
GuardMoveAssign ==
    \E x \in Objects, y \in Objects :
        /\ x # y
        /\ other.objs[x].alive = "alive"
        /\ other.objs[x].guarded = nullptr
        /\ other.objs[y].alive = "alive"
        /\ LET r == SG_moveAssign(other.objs[x], other.objs[y])
           IN  Guarded(other.w,
                       [other.objs EXCEPT ![x] = r.dst, ![y] = r.src],
                       SG_moveAssignAsserts(other.objs[x]),
                       [dst |-> x, src |-> y,
                        guarded |-> other.objs[y].guarded,
                        count |-> other.objs[y].count],
                       "moveAssign")

GuardDestroy ==
    \E x \in Objects :
        /\ other.objs[x].alive = "alive"
        /\ Guarded(SG_destroy(other.w, other.objs[x]),
                   [other.objs EXCEPT ![x] = [NoGuard EXCEPT !.alive = "destroyed"]],
                   SG_destroyAsserts(other.objs[x]), NoMove, "destroy")

NextGuard ==
    \/ GuardNew
    \/ GuardGet
    \/ GuardMoveConstruct
    \/ GuardMoveAssign
    \/ GuardDestroy

SpecGuard == InitGuard /\ [][NextGuard]_vars

\* after a move the destination guards what the source guarded, with its
\* count, and the source guards nothing with count 0
MoveTransfers(m) ==
    m.dst # "none" =>
        /\ other.objs[m.dst].guarded = m.guarded
        /\ other.objs[m.dst].count = m.count
        /\ other.objs[m.src].guarded = nullptr
        /\ other.objs[m.src].count = 0

\* C39: after a move construction or a move assignment of a StackGuard the
\* destination guards the allocation with the original count and the source
\* guards nothing with count 0; every guarded allocation is released once
\* with its original count, and no assert of a destructor fails
C39_GuardTransfersOwnership ==
    other.made = "guard" =>
        /\ MoveTransfers(other.moved)
        /\ ~other.asserted
        /\ ~other.w.wrong
        /\ AllDestroyed => other.w.count = 0 /\ other.w.live = {}

-----------------------------------------------------------------------------
\* The capacity loop of the constructors that take a capacity:
\*     while ( _capacity < capacity ) _capacity <<= 1;
\* in uint32. A uint32 is kept as its two 16-bit halves, so that the shift
\* drops the bit that leaves the 32.

Half == 65536

U32(hi, lo) == [hi |-> hi, lo |-> lo]

\* x < y of two uint32
U32_less(x, y) ==
    x.hi < y.hi \/ (x.hi = y.hi /\ x.lo < y.lo)

\* x <<= 1 of a uint32
U32_shiftLeft(x) ==
    U32((x.hi * 2 + x.lo \div (Half \div 2)) % Half, (x.lo * 2) % Half)

\* x >> 1 of a uint32
U32_shiftRight(x) ==
    U32(x.hi \div 2, (x.hi % 2) * (Half \div 2) + x.lo \div 2)

\* the uint32 has exactly one bit set
U32_isPowerOfTwo(x) ==
    \/ x.hi = 0 /\ x.lo > 0 /\ IsPowerOfTwo(x.lo)
    \/ x.lo = 0 /\ x.hi > 0 /\ IsPowerOfTwo(x.hi)

\* the capacities asked for: around the least capacity, around 2^16, around
\* 2^31 and the largest uint32
CapacityHighs == {0, 1, Half \div 2 - 1, Half \div 2, Half \div 2 + 1, Half - 1}

CapacityLows == {0, 1, MIN_CAPACITY - 1, MIN_CAPACITY, MIN_CAPACITY + 1, Half - 1}

InitCapacityLoop ==
    /\ arr = DA_new
    /\ ref = <<>>
    /\ ret = NoRet
    /\ refRet = NoRet
    /\ op = "loop"
    /\ pushOnly = TRUE
    /\ mend = NoMend
    /\ list = L_new
    /\ set = S_new(0)
    /\ map = M_new(MAP_MIN_BINS)
    /\ used = {}
    /\ hist = "adding"
    /\ build = "release"
    /\ aborted = FALSE
    /\ fixed = NoFixed
    /\ under \in Containers
    /\ \E hi \in CapacityHighs, lo \in CapacityLows :
           other = [made |-> "capacity", capacity |-> U32(hi, lo),
                    _capacity |-> U32(0, MIN_CAPACITY)]

\* one turn of the loop
CapacityShift ==
    /\ op = "loop"
    /\ U32_less(other._capacity, other.capacity)
    /\ other' = [other EXCEPT !._capacity = U32_shiftLeft(@)]
    /\ UNCHANGED <<op, notBalance>>

\* the loop ends and the buffer of _capacity elements is taken
CapacityTaken ==
    /\ op = "loop"
    /\ ~U32_less(other._capacity, other.capacity)
    /\ op' = "constructed"
    /\ UNCHANGED <<other, notBalance>>

\* a loop that can never end has no defined behaviour (it does no input or
\* output and touches nothing volatile or atomic): a build may also have
\* left the loop out and go on with the _capacity it has
CapacityAssumedToEnd ==
    /\ op = "loop"
    /\ other._capacity = U32(0, 0)
    /\ U32_less(other._capacity, other.capacity)
    /\ op' = "constructed"
    /\ UNCHANGED <<other, notBalance>>

NextCapacityLoop ==
    \/ CapacityShift
    \/ CapacityTaken
    \/ CapacityAssumedToEnd

\* the loop is run by the constructing thread until its condition fails
SpecCapacityLoop ==
    /\ InitCapacityLoop
    /\ [][NextCapacityLoop]_vars
    /\ WF_vars(CapacityShift)
    /\ WF_vars(CapacityTaken)

\* the least power of two that is at least max( 32, capacity )
IsLeastCapacity(got, asked) ==
    /\ U32_isPowerOfTwo(got)
    /\ ~U32_less(got, U32(0, MIN_CAPACITY))
    /\ ~U32_less(got, asked)
    /\ got # U32(0, MIN_CAPACITY) => U32_less(U32_shiftRight(got), asked)

\* the constructor has ended with the least capacity
CapacityIsLeast ==
    op = "constructed" => IsLeastCapacity(other._capacity, other.capacity)

\* C40: constructing a DynamicArray, a List or the bin table of a Set with a
\* requested capacity ends for every uint32 capacity, and with the least
\* power of two that is at least max( 32, capacity )
C40_CapacityLoopEnds ==
    /\ [](other.made = "capacity" => CapacityIsLeast)
    /\ <>(other.made = "capacity" => op = "constructed")

\* the same for the capacities up to 2^31
C40_CapacityUpToHalfRange ==
    /\ [](U32_less(other.capacity, U32(Half \div 2, 1)) => CapacityIsLeast)
    /\ U32_less(other.capacity, U32(Half \div 2, 1))
           => <>(other.made = "capacity" => op = "constructed")


=============================================================================
